--------------------------- MODULE Spec2Model ---------------------------
(***************************************************************************)
(* A model of the node-catalog engine of autopilot-mcp-server:            *)
(*   - ast-eval.ts        the constrained evaluator over a script tree    *)
(*   - parse-nodes-html.ts the catalog builder                            *)
(*   - node-catalog.ts    the time-bounded cache and its read operations  *)
(*   - tools/nodes.ts     the catalog-get-node tool                       *)
(*                                                                         *)
(* JavaScript strings are sequences of one-character strings, so that     *)
(* prefix tests, case folding, substring search and ordering are computed *)
(* and not assumed.  JavaScript values are tagged records.  A script is   *)
(* given by the tree acorn returns for it (or by the fact that acorn      *)
(* rejects it); a module fragment by the script elements cheerio finds.   *)
(***************************************************************************)
EXTENDS Integers, Sequences, FiniteSets, TLC

-----------------------------------------------------------------------------
(* Strings *)

s_registerType == <<"r", "e", "g", "i", "s", "t", "e", "r", "T", "y", "p", "e">>
s_nodes == <<"n", "o", "d", "e", "s">>
s_RED == <<"R", "E", "D">>
s_proto == <<"_", "_", "p", "r", "o", "t", "o", "_", "_">>
s_constructor == <<"c", "o", "n", "s", "t", "r", "u", "c", "t", "o", "r">>
s_toString == <<"t", "o", "S", "t", "r", "i", "n", "g">>
s_undefined == <<"u", "n", "d", "e", "f", "i", "n", "e", "d">>
s_null == <<"n", "u", "l", "l">>
s_true == <<"t", "r", "u", "e">>
s_false == <<"f", "a", "l", "s", "e">>
s_objectObject == <<"[", "o", "b", "j", "e", "c", "t", " ", "O", "b", "j", "e", "c", "t", "]">>
s_acorn_parse_failed == <<"a", "c", "o", "r", "n", "_", "p", "a", "r", "s", "e", "_", "f", "a", "i", "l", "e", "d">>
s_no_nodes_parsed == <<"n", "o", "_", "n", "o", "d", "e", "s", "_", "p", "a", "r", "s", "e", "d">>
s_text_javascript == <<"t", "e", "x", "t", "/", "j", "a", "v", "a", "s", "c", "r", "i", "p", "t">>
s_text_html == <<"t", "e", "x", "t", "/", "h", "t", "m", "l">>

\* property names of the records
k_type == <<"t", "y", "p", "e">>
k_module == <<"m", "o", "d", "u", "l", "e">>
k_modulePackage == <<"m", "o", "d", "u", "l", "e", "P", "a", "c", "k", "a", "g", "e">>
k_moduleSet == <<"m", "o", "d", "u", "l", "e", "S", "e", "t">>
k_category == <<"c", "a", "t", "e", "g", "o", "r", "y">>
k_paletteLabel == <<"p", "a", "l", "e", "t", "t", "e", "L", "a", "b", "e", "l">>
k_color == <<"c", "o", "l", "o", "r">>
k_icon == <<"i", "c", "o", "n">>
k_align == <<"a", "l", "i", "g", "n">>
k_inputs == <<"i", "n", "p", "u", "t", "s">>
k_outputs == <<"o", "u", "t", "p", "u", "t", "s">>
k_outputLabels == <<"o", "u", "t", "p", "u", "t", "L", "a", "b", "e", "l", "s">>
k_defaults == <<"d", "e", "f", "a", "u", "l", "t", "s">>
k_options == <<"o", "p", "t", "i", "o", "n", "s">>
k_optionsSource == <<"o", "p", "t", "i", "o", "n", "s", "S", "o", "u", "r", "c", "e">>
k_help == <<"h", "e", "l", "p">>
k_template == <<"t", "e", "m", "p", "l", "a", "t", "e">>
k_templateFields == <<"t", "e", "m", "p", "l", "a", "t", "e", "F", "i", "e", "l", "d", "s">>
k_html == <<"h", "t", "m", "l">>
k_text == <<"t", "e", "x", "t">>
k_isCustom == <<"i", "s", "C", "u", "s", "t", "o", "m">>
k_kind == <<"k", "i", "n", "d">>
k_name == <<"n", "a", "m", "e">>
k_source == <<"s", "o", "u", "r", "c", "e">>
k_node == <<"n", "o", "d", "e">>
k_config == <<"c", "o", "n", "f", "i", "g">>
k_all == <<"a", "l", "l">>
k_snippet == <<"s", "n", "i", "p", "p", "e", "t">>
k_ref == <<"r", "e", "f">>
k_expr == <<"e", "x", "p", "r">>
k_function == <<"f", "u", "n", "c", "t", "i", "o", "n">>
k_unknown == <<"u", "n", "k", "n", "o", "w", "n">>

UpperCase == <<"A", "B", "C", "D", "E", "F", "G", "H", "I", "J", "K", "L", "M",
               "N", "O", "P", "Q", "R", "S", "T", "U", "V", "W", "X", "Y", "Z">>
LowerCase == <<"a", "b", "c", "d", "e", "f", "g", "h", "i", "j", "k", "l", "m",
               "n", "o", "p", "q", "r", "s", "t", "u", "v", "w", "x", "y", "z">>

\* String.prototype.toLowerCase, on the ASCII letters
ToLowerChar(c) ==
    IF \E i \in 1..Len(UpperCase) : UpperCase[i] = c
    THEN LowerCase[CHOOSE i \in 1..Len(UpperCase) : UpperCase[i] = c]
    ELSE c

ToLowerCase(s) == SubSeq([i \in 1..Len(s) |-> ToLowerChar(s[i])], 1, Len(s))

\* String.prototype.startsWith
StartsWith(s, p) == Len(p) <= Len(s) /\ SubSeq(s, 1, Len(p)) = p

\* String.prototype.indexOf, zero-based, -1 when there is no occurrence
IndexOf(s, q) ==
    LET hits == {i \in 0..(Len(s) - Len(q)) : SubSeq(s, i + 1, i + Len(q)) = q}
    IN IF hits = {} THEN -1 ELSE CHOOSE i \in hits : \A j \in hits : i <= j

Includes(s, q) == IndexOf(s, q) # -1

-----------------------------------------------------------------------------
(* JavaScript values *)

Undefined == [t |-> "undefined"]
Null == [t |-> "null"]
Str(s) == [t |-> "string", v |-> s]
Num(n) == [t |-> "number", v |-> n]
NaN == [t |-> "NaN"]
Bool(b) == [t |-> "boolean", v |-> b]
Arr(xs) == [t |-> "array", v |-> xs]
\* an object is the sequence of its own enumerable properties, <<key, value>>,
\* in insertion order
Obj(ps) == [t |-> "object", v |-> ps]
EmptyObj == Obj(<<>>)
\* a function inherited from Object.prototype, e.g. ({}).toString; the
\* properties a program assigns to it live in the variable builtins
Builtin(k) == [t |-> "builtin", name |-> k]
\* Object.prototype itself, the value of ({}).__proto__
ObjectPrototype == [t |-> "prototype"]

IsNullish(x) == x = Undefined \/ x = Null

\* ToBoolean
Truthy(x) ==
    CASE x.t = "undefined" -> FALSE
      [] x.t = "null" -> FALSE
      [] x.t = "NaN" -> FALSE
      [] x.t = "string" -> x.v # <<>>
      [] x.t = "number" -> x.v # 0
      [] x.t = "boolean" -> x.v
      [] OTHER -> TRUE

\* a ?? b
Coalesce(a, b) == IF IsNullish(a) THEN b ELSE a

\* a || b
OrElse(a, b) == IF Truthy(a) THEN a ELSE b

\* typeof x === "object"
TypeofObject(x) == x.t \in {"object", "array", "null", "prototype"}

ObjHas(o, k) == \E i \in 1..Len(o.v) : o.v[i][1] = k

\* o[k] on the own properties
ObjGet(o, k) ==
    IF ObjHas(o, k)
    THEN o.v[CHOOSE i \in 1..Len(o.v) : o.v[i][1] = k][2]
    ELSE Undefined

\* o[k] = x : an existing key keeps its place, a new key is appended
ObjSet(o, k, x) ==
    IF ObjHas(o, k)
    THEN Obj([i \in 1..Len(o.v) |-> IF o.v[i][1] = k THEN <<k, x>> ELSE o.v[i]])
    ELSE Obj(Append(o.v, <<k, x>>))

\* the writes o[key] = value of the pairs ps, in their order: a key keeps the
\* place of its first write and holds the value of its last
ObjAssignPairs(o, ps) ==
    LET all == o.v \o ps
        first(i) == \A j \in 1..(i - 1) : all[j][1] # all[i][1]
        last(k) == CHOOSE i \in 1..Len(all) :
                      /\ all[i][1] = k
                      /\ \A j \in (i + 1)..Len(all) : all[j][1] # k
        kept == SelectSeq([i \in 1..Len(all) |-> i], first)
    IN IF ps = <<>> THEN o
       ELSE Obj([n \in 1..Len(kept) |->
                    <<all[kept[n]][1], all[last(all[kept[n]][1])][2]>>])

\* Object.keys
ObjKeys(o) == [i \in 1..Len(o.v) |-> o.v[i][1]]

\* Object.values
ObjValues(o) == [i \in 1..Len(o.v) |-> o.v[i][2]]


Digits == <<"0", "1", "2", "3", "4", "5", "6", "7", "8", "9">>

\* Number.prototype.toString for a natural number
RECURSIVE NatToString(_)
NatToString(n) ==
    IF n < 10 THEN <<Digits[n + 1]>>
    ELSE NatToString(n \div 10) \o <<Digits[(n % 10) + 1]>>

IntToString(n) == IF n < 0 THEN <<"-">> \o NatToString(-n) ELSE NatToString(n)

\* String(x)
RECURSIVE JsString(_)
JsString(x) ==
    CASE x.t = "string" -> x.v
      [] x.t = "number" -> IntToString(x.v)
      [] x.t = "NaN" -> <<"N", "a", "N">>
      [] x.t = "boolean" -> IF x.v THEN s_true ELSE s_false
      [] x.t = "null" -> s_null
      [] x.t = "undefined" -> s_undefined
      [] x.t = "array" ->
            IF x.v = <<>> THEN <<>>
            ELSE LET el(y) == IF IsNullish(y) THEN <<>> ELSE JsString(y)
                     rest == JsString(Arr(Tail(x.v)))
                 IN IF Len(x.v) = 1 THEN el(Head(x.v))
                    ELSE el(Head(x.v)) \o <<",">> \o rest
      [] OTHER -> s_objectObject

-----------------------------------------------------------------------------
(* Syntax trees (ESTree, as acorn builds them).  Every node carries in src  *)
(* the text jsSource.slice(node.start, node.end).                           *)

\* the absent node: a missing argument, an array hole
NoNode == [type |-> "none"]

Literal(value, src) == [type |-> "Literal", value |-> value, src |-> src]
Identifier(name) == [type |-> "Identifier", name |-> name, src |-> name]
Property(key, value, computed) ==
    [type |-> "Property", key |-> key, value |-> value, computed |-> computed]
SpreadElement(argument, src) ==
    [type |-> "SpreadElement", argument |-> argument, src |-> src]
ObjectExpression(properties, src) ==
    [type |-> "ObjectExpression", properties |-> properties, src |-> src]
ArrayExpression(elements, src) ==
    [type |-> "ArrayExpression", elements |-> elements, src |-> src]
UnaryExpression(operator, argument, src) ==
    [type |-> "UnaryExpression", operator |-> operator, argument |-> argument,
     src |-> src]
\* quasis: the cooked text of each quasi (Undefined for an invalid escape)
TemplateLiteral(quasis, expressions, src) ==
    [type |-> "TemplateLiteral", quasis |-> quasis, expressions |-> expressions,
     src |-> src]
CallExpression(callee, arguments, src) ==
    [type |-> "CallExpression", callee |-> callee, arguments |-> arguments,
     src |-> src]
NewExpression(callee, arguments, src) ==
    [type |-> "NewExpression", callee |-> callee, arguments |-> arguments,
     src |-> src]
MemberExpression(object, property, computed, src) ==
    [type |-> "MemberExpression", object |-> object, property |-> property,
     computed |-> computed, src |-> src]
BinaryExpression(left, right, src) ==
    [type |-> "BinaryExpression", left |-> left, right |-> right, src |-> src]
LogicalExpression(left, right, src) ==
    [type |-> "LogicalExpression", left |-> left, right |-> right, src |-> src]
ConditionalExpression(test, consequent, alternate, src) ==
    [type |-> "ConditionalExpression", test |-> test, consequent |-> consequent,
     alternate |-> alternate, src |-> src]
ThisExpression == [type |-> "ThisExpression", src |-> <<"t", "h", "i", "s">>]
\* params: the parameter nodes; body: a BlockStatement, or an expression
FunctionExpression(params, body, src) ==
    [type |-> "FunctionExpression", params |-> params, body |-> body, src |-> src]
ArrowFunctionExpression(params, body, src) ==
    [type |-> "ArrowFunctionExpression", params |-> params, body |-> body,
     src |-> src]
AssignmentPattern(left, right) ==
    [type |-> "AssignmentPattern", left |-> left, right |-> right]
RestElement(argument) == [type |-> "RestElement", argument |-> argument]
\* the pattern {}
ObjectPattern == [type |-> "ObjectPattern", properties |-> <<>>]
BlockStatement(body) == [type |-> "BlockStatement", body |-> body]
ExpressionStatement(expression) ==
    [type |-> "ExpressionStatement", expression |-> expression]
FunctionDeclaration(id, params, body) ==
    [type |-> "FunctionDeclaration", id |-> id, params |-> params, body |-> body]
VariableDeclarator(id, init) ==
    [type |-> "VariableDeclarator", id |-> id, init |-> init]
VariableDeclaration(declarations) ==
    [type |-> "VariableDeclaration", declarations |-> declarations]
Program(body) == [type |-> "Program", body |-> body]

\* the text of node.type, for the node kinds evalAst has no case for
TypeName(tag) ==
    CASE tag = "ThisExpression" -> <<"T", "h", "i", "s", "E", "x", "p", "r", "e", "s", "s", "i", "o", "n">>
      [] tag = "AssignmentExpression" -> <<"A", "s", "s", "i", "g", "n", "m", "e", "n", "t", "E", "x", "p", "r", "e", "s", "s", "i", "o", "n">>
      [] tag = "SequenceExpression" -> <<"S", "e", "q", "u", "e", "n", "c", "e", "E", "x", "p", "r", "e", "s", "s", "i", "o", "n">>
      [] tag = "SpreadElement" -> <<"S", "p", "r", "e", "a", "d", "E", "l", "e", "m", "e", "n", "t">>
      [] tag = "Literal" -> <<"L", "i", "t", "e", "r", "a", "l">>
      [] tag = "Identifier" -> <<"I", "d", "e", "n", "t", "i", "f", "i", "e", "r">>
      [] OTHER -> <<"?">>

-----------------------------------------------------------------------------
(* ast-eval.ts *)

isPropertyKeyToString(prop) ==
    IF prop.computed THEN Null
    ELSE IF prop.key.type = "Identifier" THEN Str(prop.key.name)
    ELSE IF prop.key.type = "Literal" THEN Str(JsString(prop.key.value))
    ELSE Null

\* sliceSource without the text of the script: src is "" and so is the slice
sliceNoSource(node) == <<>>

sliceSource(node) == node.src

Placeholder(kind, node) ==
    Obj(<< <<k_kind, Str(kind)>>, <<k_source, Str(sliceSource(node))>> >>)

\* out[key] = x on a fresh object literal {}: the key __proto__ reaches the
\* prototype setter and creates no own property
OutSet(out, key, x) == IF key = s_proto THEN out ELSE ObjSet(out, key, x)

RECURSIVE evalAst(_, _)
RECURSIVE evalProperties(_, _, _)
RECURSIVE evalTemplate(_, _, _, _)

\* a TemplateLiteral case that keeps the text resolved so far when an
\* embedded expression does not reduce
evalTemplatePartial(node, env, i, s) ==
    IF i > Len(node.quasis) THEN Str(s)
    ELSE LET s1 == s \o Coalesce(node.quasis[i], Str(<<>>)).v
         IN IF i <= Len(node.expressions)
            THEN LET ev == evalAst(node.expressions[i], env)
                 IN IF ev.t \in {"string", "number", "boolean", "NaN"}
                    THEN evalTemplate(node, env, i + 1, s1 \o JsString(ev))
                    ELSE Str(s1)
            ELSE evalTemplate(node, env, i + 1, s1)

\* the loop over the properties of an object literal: the properties that
\* are written to out, in their order (the key __proto__ writes nothing, as
\* in OutSet)
evalProperties(props, env, out) ==
    LET key(i) == IF props[i].type = "Property"
                  THEN isPropertyKeyToString(props[i]) ELSE Null
        written(i) == Truthy(key(i)) /\ key(i).v # s_proto
        set == SelectSeq([i \in 1..Len(props) |-> i], written)
    IN ObjAssignPairs(out, [n \in 1..Len(set) |->
                               <<key(set[n]).v, evalAst(props[set[n]].value, env)>>])

\* the loop of the TemplateLiteral case, from quasi i with s accumulated
evalTemplate(node, env, i, s) ==
    IF i > Len(node.quasis) THEN Str(s)
    ELSE LET s1 == s \o Coalesce(node.quasis[i], Str(<<>>)).v
         IN IF i <= Len(node.expressions)
            THEN LET ev == evalAst(node.expressions[i], env)
                 IN IF ev.t \in {"string", "number", "boolean", "NaN"}
                    THEN evalTemplate(node, env, i + 1, s1 \o JsString(ev))
                    ELSE Placeholder(k_template, node)
            ELSE evalTemplate(node, env, i + 1, s1)

evalAst(node, env) ==
    IF node = NoNode THEN Null
    ELSE CASE node.type = "Literal" -> node.value
      [] node.type = "Identifier" ->
            IF ObjHas(env, node.name) THEN ObjGet(env, node.name)
            ELSE Obj(<< <<k_kind, Str(k_ref)>>, <<k_name, Str(node.name)>> >>)
      [] node.type = "ArrayExpression" ->
            Arr([i \in 1..Len(node.elements) |-> evalAst(node.elements[i], env)])
      [] node.type = "ObjectExpression" ->
            evalProperties(node.properties, env, EmptyObj)
      [] node.type = "UnaryExpression" ->
            LET v == evalAst(node.argument, env)
            IN IF v.t = "number" /\ node.operator = "-" THEN Num(-v.v)
               ELSE IF v.t = "number" /\ node.operator = "+" THEN v
               ELSE IF v.t = "boolean" /\ node.operator = "!" THEN Bool(~v.v)
               ELSE Placeholder(k_expr, node)
      [] node.type = "TemplateLiteral" -> evalTemplate(node, env, 1, <<>>)
      [] node.type \in {"FunctionExpression", "ArrowFunctionExpression"} ->
            Placeholder(k_function, node)
      [] node.type \in {"CallExpression", "MemberExpression", "BinaryExpression",
                        "LogicalExpression", "ConditionalExpression",
                        "NewExpression"} ->
            Placeholder(k_expr, node)
      [] OTHER ->
            Obj(<< <<k_kind, Str(k_unknown)>>, <<k_type, Str(TypeName(node.type))>>,
                   <<k_source, Str(sliceSource(node))>> >>)

\* the name of a member-access property: an Identifier's name or
\* String(value) of a Literal, "" otherwise
MemberPropName(prop) ==
    IF prop.type = "Identifier" THEN prop.name
    ELSE IF prop.type = "Literal" THEN JsString(prop.value)
    ELSE <<>>

\* matches RED.nodes.registerType
isRegisterTypeCallee(callee) ==
    /\ callee # NoNode
    /\ callee.type = "MemberExpression"
    /\ MemberPropName(callee.property) = s_registerType
    /\ callee.object.type = "MemberExpression"
    /\ MemberPropName(callee.object.property) = s_nodes
    /\ callee.object.object.type = "Identifier"
    /\ callee.object.object.name = s_RED

\* the string of a string Literal, null for anything else
\* extractStringLiteral without the test of the type of the value: the text
\* of any literal
extractLiteralText(node) ==
    IF node = NoNode THEN Null
    ELSE IF node.type = "Literal" THEN Str(JsString(node.value))
    ELSE Null

extractStringLiteral(node) ==
    IF node = NoNode THEN Null
    ELSE IF node.type = "Literal" /\ node.value.t = "string" THEN node.value
    ELSE Null

-----------------------------------------------------------------------------
(* More of String.prototype *)

WhiteSpace == {" ", "\t", "\n", "\r"}

RECURSIVE TrimStart(_)
TrimStart(s) ==
    IF s # <<>> /\ Head(s) \in WhiteSpace THEN TrimStart(Tail(s)) ELSE s

RECURSIVE TrimEnd(_)
TrimEnd(s) ==
    IF s # <<>> /\ s[Len(s)] \in WhiteSpace
    THEN TrimEnd(SubSeq(s, 1, Len(s) - 1)) ELSE s

\* String.prototype.trim
Trim(s) == TrimEnd(TrimStart(s))

\* s.split(sep) for a one-character separator; cur is the piece being read
RECURSIVE SplitFrom(_, _, _)
SplitFrom(s, sep, cur) ==
    IF s = <<>> THEN <<cur>>
    ELSE IF Head(s) = sep THEN <<cur>> \o SplitFrom(Tail(s), sep, <<>>)
    ELSE SplitFrom(Tail(s), sep, Append(cur, Head(s)))

Split(s, sep) == SplitFrom(s, sep, <<>>)

\* parts.join(sep)
RECURSIVE Join(_, _)
Join(parts, sep) ==
    IF parts = <<>> THEN <<>>
    ELSE IF Len(parts) = 1 THEN Head(parts)
    ELSE Head(parts) \o sep \o Join(Tail(parts), sep)

\* xs.filter(Boolean) on a sequence of JavaScript values
RECURSIVE FilterTruthy(_)
FilterTruthy(xs) ==
    IF xs = <<>> THEN <<>>
    ELSE IF Truthy(Head(xs)) THEN <<Head(xs)>> \o FilterTruthy(Tail(xs))
    ELSE FilterTruthy(Tail(xs))

\* The order String.prototype.localeCompare gives the characters (root
\* collation): punctuation, then digits, then letters; a letter's case
\* counts only between strings that are equal letter for letter, and then
\* the lower-case letter comes first.
CollationOrder ==
    <<"_", "-", ",", ";", ":", "!", "?", ".", "'", "(", ")", "[", "]", "{", "}",
      "@", "*", "/", "&", "#", "%", "+", "<", "=", ">", "|", "$",
      "0", "1", "2", "3", "4", "5", "6", "7", "8", "9",
      "a", "b", "c", "d", "e", "f", "g", "h", "i", "j", "k", "l", "m",
      "n", "o", "p", "q", "r", "s", "t", "u", "v", "w", "x", "y", "z">>

PrimaryWeight(c) ==
    LET l == ToLowerChar(c)
    IN IF \E i \in 1..Len(CollationOrder) : CollationOrder[i] = l
       THEN CHOOSE i \in 1..Len(CollationOrder) : CollationOrder[i] = l
       ELSE 0

CaseWeight(c) == IF ToLowerChar(c) = c THEN 0 ELSE 1

\* lexicographic comparison of two sequences of numbers: -1, 0 or 1
RECURSIVE CompareWeights(_, _)
CompareWeights(a, b) ==
    IF a = <<>> /\ b = <<>> THEN 0
    ELSE IF a = <<>> THEN -1
    ELSE IF b = <<>> THEN 1
    ELSE IF Head(a) < Head(b) THEN -1
    ELSE IF Head(a) > Head(b) THEN 1
    ELSE CompareWeights(Tail(a), Tail(b))

\* a.localeCompare(b): negative, zero or positive
LocaleCompare(a, b) ==
    LET pa == [i \in 1..Len(a) |-> PrimaryWeight(a[i])]
        pb == [i \in 1..Len(b) |-> PrimaryWeight(b[i])]
        p == CompareWeights(pa, pb)
    IN IF p # 0 THEN p
       ELSE CompareWeights([i \in 1..Len(a) |-> CaseWeight(a[i])],
                           [i \in 1..Len(b) |-> CaseWeight(b[i])])

-----------------------------------------------------------------------------
(* parse-nodes-html.ts: the text helpers *)

RECURSIVE ReplaceCrLf(_)
ReplaceCrLf(s) ==
    IF s = <<>> THEN <<>>
    ELSE IF Len(s) >= 2 /\ s[1] = "\r" /\ s[2] = "\n"
         THEN <<"\n">> \o ReplaceCrLf(Tail(Tail(s)))
    ELSE <<Head(s)>> \o ReplaceCrLf(Tail(s))

\* /[ \t]+/g -> " "
RECURSIVE CollapseBlanks(_)
CollapseBlanks(s) ==
    IF s = <<>> THEN <<>>
    ELSE IF Head(s) \in {" ", "\t"}
         THEN IF Len(s) >= 2 /\ s[2] \in {" ", "\t"}
              THEN CollapseBlanks(Tail(s))
              ELSE <<" ">> \o CollapseBlanks(Tail(s))
    ELSE <<Head(s)>> \o CollapseBlanks(Tail(s))

\* /\n{3,}/g -> "\n\n"
RECURSIVE CollapseNewlines(_)
CollapseNewlines(s) ==
    IF s = <<>> THEN <<>>
    ELSE IF Len(s) >= 3 /\ s[1] = "\n" /\ s[2] = "\n" /\ s[3] = "\n"
         THEN CollapseNewlines(Tail(s))
    ELSE <<Head(s)>> \o CollapseNewlines(Tail(s))

normalizeWhitespace(s) == Trim(CollapseNewlines(CollapseBlanks(ReplaceCrLf(s))))

\* A fragment of markup as cheerio reads it: html is the raw text, domText
\* what $.text() returns for it, ids the id attributes of its elements in
\* document order.
Fragment(html, domText, ids) == [html |-> html, domText |-> domText, ids |-> ids]

htmlToText(frag) ==
    IF frag.html = <<>> THEN <<>> ELSE normalizeWhitespace(frag.domText)

splitModuleName(moduleName) ==
    LET s == moduleName
        parts == Split(s, "/")
        orNull(x) == IF x = <<>> THEN Null ELSE Str(x)
    IN IF StartsWith(s, <<"@">>) /\ Len(parts) >= 2
       THEN [module |-> Str(s),
             modulePackage |-> Str(Join(SubSeq(parts, 1, 2), <<"/">>)),
             moduleSet |-> orNull(Join(SubSeq(parts, 3, Len(parts)), <<"/">>))]
       ELSE [module |-> Str(s),
             modulePackage |-> Str(IF parts[1] # <<>> THEN parts[1] ELSE s),
             moduleSet |-> orNull(Join(SubSeq(parts, 2, Len(parts)), <<"/">>))]

\* A <script> element of a module fragment: its type, data-help-name and
\* data-template-name attributes (Undefined when absent), its content as
\* markup (frag), and what acorn makes of its trimmed content: parses says
\* whether acorn accepts it, ast is the Program it returns.
ScriptElement(typeAttr, helpName, templateName, frag, parses, ast) ==
    [typeAttr |-> typeAttr, helpName |-> helpName, templateName |-> templateName,
     frag |-> frag, parses |-> parses, ast |-> ast]

\* Map.prototype.set on a sequence of <<key, value>> pairs
MapSet(m, k, x) ==
    IF \E i \in 1..Len(m) : m[i][1] = k
    THEN [i \in 1..Len(m) |-> IF m[i][1] = k THEN <<k, x>> ELSE m[i]]
    ELSE Append(m, <<k, x>>)

\* the loop of extractScriptsAndDocs over the elements, acc = {js, helpByType,
\* templateByType}
RECURSIVE extractLoop(_, _)
extractLoop(elems, acc) ==
    IF elems = <<>> THEN acc
    ELSE LET el == Head(elems)
             typeAttr == ToLowerCase(JsString(OrElse(el.typeAttr, Str(<<>>))))
             isHelp == Truthy(el.helpName)
             isTemplate == Truthy(el.templateName)
             code == Trim(el.frag.html)
             a1 == IF isHelp
                   THEN [acc EXCEPT !.helpByType = MapSet(@, el.helpName.v, el.frag)]
                   ELSE acc
             a2 == IF isTemplate
                   THEN [a1 EXCEPT !.templateByType =
                                       MapSet(@, el.templateName.v, el.frag)]
                   ELSE a1
             a3 == IF /\ ~isHelp
                      /\ ~isTemplate
                      /\ typeAttr \in {s_text_javascript, <<>>}
                      /\ code # <<>>
                   THEN [a2 EXCEPT !.js = Append(@, el)]
                   ELSE a2
         IN extractLoop(Tail(elems), a3)

extractScriptsAndDocs(moduleElems) ==
    extractLoop(moduleElems, [js |-> <<>>, helpByType |-> <<>>, templateByType |-> <<>>])

\* Array.from(new Set(arr.filter(Boolean))) on a sequence of strings
RECURSIVE Dedupe(_, _)
Dedupe(arr, seen) ==
    IF arr = <<>> THEN <<>>
    ELSE IF Head(arr) = <<>> \/ Head(arr) \in seen THEN Dedupe(Tail(arr), seen)
    ELSE <<Head(arr)>> \o Dedupe(Tail(arr), seen \cup {Head(arr)})

p_node_input == <<"n", "o", "d", "e", "-", "i", "n", "p", "u", "t", "-">>
p_node_config_input == <<"n", "o", "d", "e", "-", "c", "o", "n", "f", "i", "g", "-",
                         "i", "n", "p", "u", "t", "-">>

\* id.match(/^prefix(.+)$/): the captured name, <<>> when there is no match
\* (. does not match a line break)
MatchAfter(id, prefix) ==
    LET rest == SubSeq(id, Len(prefix) + 1, Len(id))
    IN IF /\ StartsWith(id, prefix)
          /\ rest # <<>>
          /\ \A i \in 1..Len(rest) : rest[i] \notin {"\n", "\r"}
       THEN rest ELSE <<>>

\* the names of one kind among the ids, in document order
RECURSIVE FieldNames(_, _)
FieldNames(ids, kind) ==
    IF ids = <<>> THEN <<>>
    ELSE LET id == Head(ids)
             n == MatchAfter(id, p_node_input)
             c == IF n # <<>> THEN <<>> ELSE MatchAfter(id, p_node_config_input)
             here == CASE kind = "node" -> n
                       [] kind = "config" -> c
                       [] OTHER -> IF n # <<>> THEN n ELSE c
         IN (IF here # <<>> THEN <<here>> ELSE <<>>) \o FieldNames(Tail(ids), kind)

StrArr(xs) == Arr([i \in 1..Len(xs) |-> Str(xs[i])])

extractTemplateFields(frag) ==
    LET ids == IF frag.html = <<>> THEN <<>> ELSE frag.ids
    IN Obj(<< <<k_node, StrArr(Dedupe(FieldNames(ids, "node"), {}))>>,
              <<k_config, StrArr(Dedupe(FieldNames(ids, "config"), {}))>>,
              <<k_all, StrArr(Dedupe(FieldNames(ids, "all"), {}))>> >>)

-----------------------------------------------------------------------------
(* parse-nodes-html.ts: finding the registrations of a script *)

\* the children acorn-walk's base visitor descends into, in its order
Children(node) ==
    CASE node.type \in {"Program", "BlockStatement"} -> node.body
      [] node.type = "ExpressionStatement" -> <<node.expression>>
      [] node.type \in {"FunctionDeclaration", "FunctionExpression",
                        "ArrowFunctionExpression"} ->
            node.params \o <<node.body>>
      [] node.type = "AssignmentPattern" -> <<node.left, node.right>>
      [] node.type = "RestElement" -> <<node.argument>>
      [] node.type = "VariableDeclaration" -> node.declarations
      [] node.type = "VariableDeclarator" ->
            <<node.id>> \o (IF node.init = NoNode THEN <<>> ELSE <<node.init>>)
      [] node.type \in {"CallExpression", "NewExpression"} ->
            <<node.callee>> \o node.arguments
      [] node.type = "MemberExpression" ->
            <<node.object>> \o (IF node.computed THEN <<node.property>> ELSE <<>>)
      [] node.type = "ObjectExpression" -> node.properties
      [] node.type = "Property" ->
            (IF node.computed THEN <<node.key>> ELSE <<>>) \o <<node.value>>
      [] node.type = "SpreadElement" -> <<node.argument>>
      [] node.type = "ArrayExpression" ->
            SelectSeq(node.elements, LAMBDA e : e # NoNode)
      [] node.type = "UnaryExpression" -> <<node.argument>>
      [] node.type \in {"BinaryExpression", "LogicalExpression"} ->
            <<node.left, node.right>>
      [] node.type = "ConditionalExpression" ->
            <<node.test, node.consequent, node.alternate>>
      [] node.type = "TemplateLiteral" -> node.expressions
      [] OTHER -> <<>>

\* walk.simple: every node of the tree, a node after its children
RECURSIVE Walk(_)
RECURSIVE WalkAll(_)
WalkAll(nodes) ==
    IF nodes = <<>> THEN <<>>
    ELSE IF Len(nodes) = 1 THEN Walk(nodes[1])
    ELSE WalkAll(SubSeq(nodes, 1, Len(nodes) \div 2))
         \o WalkAll(SubSeq(nodes, Len(nodes) \div 2 + 1, Len(nodes)))

Walk(node) == WalkAll(Children(node)) \o <<node>>

Arg(args, i) == IF i <= Len(args) THEN args[i] ELSE NoNode

\* params.map(p => p.type === "Identifier" ? p.name : null).filter(Boolean)
RECURSIVE ParamNames(_)
ParamNames(params) ==
    IF params = <<>> THEN <<>>
    ELSE IF Head(params).type = "Identifier" /\ Head(params).name # <<>>
         THEN <<Head(params).name>> \o ParamNames(Tail(params))
    ELSE ParamNames(Tail(params))

SeqToSet(xs) == {xs[i] : i \in 1..Len(xs)}

\* wrappers after maybeRegisterWrapper(fnName, params, bodyNode); wrappers
\* is the Map as a sequence of <<name, binding>>
maybeRegisterWrapper(wrappers, fnName, params, bodyNode) ==
    LET calls == SelectSeq(Walk(bodyNode),
                           LAMBDA n : /\ n.type = "CallExpression"
                                      /\ isRegisterTypeCallee(n.callee))
    IN IF fnName = <<>> \/ calls = <<>> THEN wrappers
       ELSE LET innerCall == Head(calls)
                typeArg == Arg(innerCall.arguments, 1)
                optionsArg == Arg(innerCall.arguments, 2)
            IN IF /\ typeArg.type = "Identifier"
                  /\ typeArg.name \in SeqToSet(params)
                  /\ optionsArg.type = "ObjectExpression"
               THEN MapSet(wrappers, fnName,
                           [params |-> params, typeArg |-> typeArg,
                            optionsArg |-> optionsArg])
               ELSE wrappers

\* the nodes the visitors of the first walk are called for
Declares(node) == node.type \in {"FunctionDeclaration", "VariableDeclarator"}

\* the first walk: the visitors FunctionDeclaration and VariableDeclarator,
\* over the nodes that have one
RECURSIVE discoverWrappers(_, _)
discoverWrappers(nodes, wrappers) ==
    IF nodes = <<>> THEN wrappers
    ELSE LET node == Head(nodes)
             w == CASE node.type = "FunctionDeclaration" ->
                         maybeRegisterWrapper(wrappers, node.id.name,
                                              ParamNames(node.params), node.body)
                    [] /\ node.type = "VariableDeclarator"
                       /\ node.id.type = "Identifier"
                       /\ node.init # NoNode
                       /\ node.init.type \in {"FunctionExpression",
                                              "ArrowFunctionExpression"}
                       /\ node.init.body.type = "BlockStatement" ->
                         maybeRegisterWrapper(wrappers, node.id.name,
                                              ParamNames(node.init.params),
                                              node.init.body)
                    [] OTHER -> wrappers
         IN discoverWrappers(Tail(nodes), w)

FoundEntry(type, options, optionsSource) ==
    [type |-> type, options |-> options, optionsSource |-> optionsSource]

\* the direct branch of the CallExpression visitor: the entries it pushes
directCall(node) ==
    LET typeArg == Arg(node.arguments, 1)
        optionsArg == Arg(node.arguments, 2)
        type == extractStringLiteral(typeArg)
    IN IF ~Truthy(type) THEN <<>>
       ELSE <<FoundEntry(type.v,
                         IF optionsArg # NoNode THEN evalAst(optionsArg, EmptyObj)
                         ELSE Null,
                         IF optionsArg # NoNode THEN sliceSource(optionsArg)
                         ELSE <<>>)>>

\* env after binding the wrapper's parameters from position i on
RECURSIVE bindParams(_, _, _, _)
bindParams(params, args, i, env) ==
    IF i > Len(params) THEN env
    ELSE bindParams(params, args, i + 1,
                    OutSet(env, params[i],
                           IF Arg(args, i) # NoNode
                           THEN evalAst(Arg(args, i), EmptyObj) ELSE Null))

\* the wrapper branch of the CallExpression visitor
wrapperCall(node, w) ==
    LET env == bindParams(w.params, node.arguments, 1, EmptyObj)
        typeValue == ObjGet(env, w.typeArg.name)
    IN IF typeValue.t # "string" \/ typeValue.v = <<>> THEN <<>>
       ELSE <<FoundEntry(typeValue.v, evalAst(w.optionsArg, env),
                         sliceSource(w.optionsArg))>>

MapHas(m, k) == \E i \in 1..Len(m) : m[i][1] = k
MapGet(m, k) == m[CHOOSE i \in 1..Len(m) : m[i][1] = k][2]

\* the second walk: the visitor CallExpression; a call pushes one entry or
\* none, and found holds them in the order of the walk
resolveCalls(nodes, wrappers) ==
    LET here(node) ==
            IF node.type # "CallExpression" THEN <<>>
            ELSE IF isRegisterTypeCallee(node.callee) THEN directCall(node)
            ELSE IF /\ node.callee.type = "Identifier"
                    /\ MapHas(wrappers, node.callee.name)
                 THEN wrapperCall(node, MapGet(wrappers, node.callee.name))
            ELSE <<>>
        pushed == [i \in 1..Len(nodes) |-> here(nodes[i])]
        pushing == SelectSeq([i \in 1..Len(nodes) |-> i], LAMBDA i : pushed[i] # <<>>)
    IN [n \in 1..Len(pushing) |-> pushed[pushing[n]][1]]

\* a finder that reads what it can of a script acorn rejects
parseEditorJsTolerantly(script) ==
    LET all == Walk(script.ast)
    IN [found |-> resolveCalls(all, discoverWrappers(SelectSeq(all, Declares), <<>>)),
        warnings |-> IF script.parses THEN <<>> ELSE <<s_acorn_parse_failed>>]

\* script: an element extractScriptsAndDocs collected as registration source
parseEditorJsForRegisterTypes(script) ==
    IF ~script.parses
    THEN [found |-> <<>>, warnings |-> <<s_acorn_parse_failed>>]
    ELSE LET all == Walk(script.ast)
         IN [found |-> resolveCalls(all, discoverWrappers(SelectSeq(all, Declares),
                                                          <<>>)),
             warnings |-> <<>>]

-----------------------------------------------------------------------------
(* parse-nodes-html.ts: the builder.                                        *)
(*                                                                          *)
(* nodesByType is a plain object literal {}, so a lookup of a key it does   *)
(* not own goes to Object.prototype.  The build state bs holds              *)
(*   own    the own properties of nodesByType, type -> record               *)
(*   proto  the prototype of nodesByType: ObjectPrototype, or the record    *)
(*          the setter of __proto__ installed                               *)
(*   g      what outlives the build: the properties assigned to the         *)
(*          functions of Object.prototype (builtins) and to                 *)
(*          Object.prototype itself (protoProps)                            *)
(*   warnings                                                               *)

BuiltinNames ==
    {<<"c", "o", "n", "s", "t", "r", "u", "c", "t", "o", "r">>,
     <<"t", "o", "S", "t", "r", "i", "n", "g">>,
     <<"v", "a", "l", "u", "e", "O", "f">>,
     <<"h", "a", "s", "O", "w", "n", "P", "r", "o", "p", "e", "r", "t", "y">>,
     <<"i", "s", "P", "r", "o", "t", "o", "t", "y", "p", "e", "O", "f">>,
     <<"p", "r", "o", "p", "e", "r", "t", "y", "I", "s", "E", "n", "u", "m", "e", "r", "a", "b", "l", "e">>,
     <<"t", "o", "L", "o", "c", "a", "l", "e", "S", "t", "r", "i", "n", "g">>,
     <<"_", "_", "d", "e", "f", "i", "n", "e", "G", "e", "t", "t", "e", "r", "_", "_">>,
     <<"_", "_", "d", "e", "f", "i", "n", "e", "S", "e", "t", "t", "e", "r", "_", "_">>,
     <<"_", "_", "l", "o", "o", "k", "u", "p", "G", "e", "t", "t", "e", "r", "_", "_">>,
     <<"_", "_", "l", "o", "o", "k", "u", "p", "S", "e", "t", "t", "e", "r", "_", "_">>}

CleanGlobals == [builtins |-> EmptyObj, protoProps |-> EmptyObj]

NewBuild(g) == [own |-> EmptyObj, proto |-> ObjectPrototype, g |-> g,
                warnings |-> <<>>]

\* nodesByType[k]
NbtGet(bs, k) ==
    IF ObjHas(bs.own, k) THEN ObjGet(bs.own, k)
    ELSE IF bs.proto.t = "object" /\ ObjHas(bs.proto, k) THEN ObjGet(bs.proto, k)
    ELSE IF k = s_proto THEN bs.proto
    ELSE IF k \in BuiltinNames THEN Builtin(k)
    ELSE ObjGet(bs.g.protoProps, k)

\* nodesByType[k] = x
NbtSet(bs, k, x) ==
    IF k = s_proto
    THEN IF x.t \in {"object", "array", "builtin", "prototype", "null"}
         THEN [bs EXCEPT !.proto = x] ELSE bs
    ELSE [bs EXCEPT !.own = ObjSet(@, k, x)]

\* the own enumerable properties of the object x denotes
Props(g, x) ==
    CASE x.t = "object" -> x
      [] x.t = "builtin" -> IF ObjHas(g.builtins, x.name)
                            THEN ObjGet(g.builtins, x.name) ELSE EmptyObj
      [] x.t = "prototype" -> g.protoProps
      [] OTHER -> EmptyObj

\* x[f] for an object x: own, or inherited from Object.prototype
PropGet(g, x, f) ==
    IF ObjHas(Props(g, x), f) THEN ObjGet(Props(g, x), f)
    ELSE IF x.t \in {"object", "builtin", "array"} THEN ObjGet(g.protoProps, f)
    ELSE Undefined

\* Object.assign(nodesByType[k], {...props})
NbtAssign(bs, k, props) ==
    LET x == NbtGet(bs, k)
    IN CASE x.t = "object" /\ ObjHas(bs.own, k) ->
                [bs EXCEPT !.own = ObjSet(@, k, ObjAssignPairs(x, props))]
         [] x.t = "object" /\ ~ObjHas(bs.own, k) /\ k = s_proto ->
                [bs EXCEPT !.proto = ObjAssignPairs(x, props)]
         [] x.t = "builtin" ->
                [bs EXCEPT !.g.builtins =
                               ObjSet(@, x.name, ObjAssignPairs(Props(bs.g, x), props))]
         [] x.t = "prototype" ->
                [bs EXCEPT !.g.protoProps = ObjAssignPairs(@, props)]
         [] OTHER -> bs

\* nodesByType[type] = nodesByType[type] || { type }
NbtEnsure(bs, type) ==
    NbtSet(bs, type, OrElse(NbtGet(bs, type), Obj(<< <<k_type, Str(type)>> >>)))

ModulePairs(m) ==
    << <<k_module, m.module>>, <<k_modulePackage, m.modulePackage>>,
       <<k_moduleSet, m.moduleSet>> >>

\* a help fragment that leaves the attribution of the record alone
attachHelpOnly(bs, m, type, helpFrag) ==
    NbtAssign(NbtEnsure(bs, type), type,
              << <<k_help, Obj(<< <<k_html, Str(helpFrag.html)>>,
                                  <<k_text, Str(htmlToText(helpFrag))>> >>)>> >>)

attachHelp(bs, m, type, helpFrag) ==
    NbtAssign(NbtEnsure(bs, type), type,
              ModulePairs(m) \o
              << <<k_help, Obj(<< <<k_html, Str(helpFrag.html)>>,
                                  <<k_text, Str(htmlToText(helpFrag))>> >>)>> >>)

attachTemplate(bs, m, type, templateFrag) ==
    NbtAssign(NbtEnsure(bs, type), type,
              ModulePairs(m) \o
              << <<k_template, Obj(<< <<k_html, Str(templateFrag.html)>>,
                                      <<k_text, Str(htmlToText(templateFrag))>> >>)>>,
                 <<k_templateFields, extractTemplateFields(templateFrag)>> >>)

StructuralFields ==
    <<k_category, k_paletteLabel, k_color, k_icon, k_align, k_inputs, k_outputs,
      k_outputLabels, k_defaults>>

\* a merge in which the value a record holds is preferred to the new one
MergedFieldKeepingFirst(g, opts, prev, f) ==
    Coalesce(PropGet(g, prev, f), Coalesce(PropGet(g, opts, f), Null))

\* opts.f ?? prev.f ?? null
MergedField(g, opts, prev, f) ==
    Coalesce(PropGet(g, opts, f), Coalesce(PropGet(g, prev, f), Null))

\* the merge of one found entry into nodesByType
mergeEntry(bs, m, entry) ==
    LET type == entry.type
        b1 == NbtEnsure(bs, type)
        prev == NbtGet(b1, type)
        opts == IF Truthy(entry.options) /\ TypeofObject(entry.options)
                THEN entry.options ELSE EmptyObj
        field(f) == <<f, MergedField(b1.g, opts, prev, f)>>
        merged == ObjAssignPairs(
                    Props(b1.g, prev),
                    << <<k_type, Str(type)>> >> \o ModulePairs(m) \o
                    [i \in 1..Len(StructuralFields) |-> field(StructuralFields[i])] \o
                    << <<k_options, opts>>,
                       <<k_optionsSource,
                         OrElse(Str(entry.optionsSource),
                                OrElse(PropGet(b1.g, prev, k_optionsSource),
                                       Str(<<>>)))>> >>)
    IN NbtSet(b1, type, merged)

\* The loops below hand the state of one round to the next as a value: b in
\* {F(b) : b \in {e}} is the value of e, where LET b == e would leave e to be
\* evaluated inside F, each round nested in the rounds after it.
The(S) == CHOOSE x \in S : TRUE

RECURSIVE attachHelps(_, _, _)
attachHelps(bs, m, helps) ==
    IF helps = <<>> THEN bs
    ELSE The({attachHelps(b, m, Tail(helps)) :
                 b \in {attachHelp(bs, m, Head(helps)[1], Head(helps)[2])}})

RECURSIVE attachTemplates(_, _, _)
attachTemplates(bs, m, templates) ==
    IF templates = <<>> THEN bs
    ELSE The({attachTemplates(b, m, Tail(templates)) :
                 b \in {attachTemplate(bs, m, Head(templates)[1],
                                       Head(templates)[2])}})

\* the entries of one script, in order: the first half, then the second
RECURSIVE mergeFound(_, _, _)
mergeFound(bs, m, found) ==
    IF found = <<>> THEN bs
    ELSE IF Len(found) = 1 THEN The({b : b \in {mergeEntry(bs, m, found[1])}})
    ELSE The({mergeFound(b, m, SubSeq(found, Len(found) \div 2 + 1, Len(found))) :
                 b \in {mergeFound(bs, m, SubSeq(found, 1, Len(found) \div 2))}})

\* one registration source block: its warnings, then its entries
mergeScript(bs, m, script) ==
    LET r == parseEditorJsForRegisterTypes(script)
        b1 == [bs EXCEPT !.warnings =
                  @ \o [i \in 1..Len(r.warnings) |->
                           m.module.v \o <<":">> \o r.warnings[i]]]
    IN mergeFound(b1, m, r.found)

RECURSIVE mergeScripts(_, _, _)
mergeScripts(bs, m, js) ==
    IF js = <<>> THEN bs
    ELSE The({mergeScripts(b, m, Tail(js)) : b \in {mergeScript(bs, m, Head(js))}})

\* A module block of the document, as the regular expression of
\* parseNodesHtml cuts it: the name in the delimiter, and the script
\* elements of the fragment that follows.
ModuleBlock(name, elems) == [name |-> name, elems |-> elems]

\* one round of the loop over the module blocks
buildModule(bs, block) ==
    LET m == splitModuleName(block.name)
        x == extractScriptsAndDocs(block.elems)
    IN The({mergeScripts(b2, m, x.js) :
               b2 \in {attachTemplates(b1, m, x.templateByType) :
                          b1 \in {attachHelps(bs, m, x.helpByType)}}})

RECURSIVE buildModules(_, _)
buildModules(bs, blocks) ==
    IF blocks = <<>> THEN bs
    ELSE The({buildModules(b, Tail(blocks)) : b \in {buildModule(bs, Head(blocks))}})

\* String(a.type) of a record
TypeText(g, a) == JsString(PropGet(g, a, k_type))

\* Array.prototype.sort by String(a.type).localeCompare(String(b.type));
\* the sort is stable: a, which came after the records of sorted, goes
\* behind the last of them that it does not precede
InsertByType(g, sorted, a) ==
    LET t == TypeText(g, a)
        notAfter == {i \in 1..Len(sorted) :
                        LocaleCompare(t, TypeText(g, sorted[i])) >= 0}
        k == IF notAfter = {} THEN 0
             ELSE CHOOSE i \in notAfter : \A j \in notAfter : j <= i
    IN SubSeq(sorted, 1, k) \o <<a>> \o SubSeq(sorted, k + 1, Len(sorted))

\* sorted with the records of xs inserted one after the other
RECURSIVE SortInto(_, _, _)
SortInto(g, sorted, xs) ==
    IF xs = <<>> THEN sorted
    ELSE IF Len(xs) = 1 THEN The({b : b \in {InsertByType(g, sorted, xs[1])}})
    ELSE The({SortInto(g, b, SubSeq(xs, Len(xs) \div 2 + 1, Len(xs))) :
                 b \in {SortInto(g, sorted, SubSeq(xs, 1, Len(xs) \div 2))}})

SortByType(g, xs) == SortInto(g, <<>>, xs)

\* the end of parseNodesHtml: the verbose warning, the sort, the result;
\* g is returned with it because the build may have left properties there
finishBuild(bs, verbose) ==
    [nodesByType |-> bs.own,
     nodes |-> SortByType(bs.g, ObjValues(bs.own)),
     warnings |-> IF verbose /\ Len(bs.own.v) = 0
                  THEN Append(bs.warnings, s_no_nodes_parsed) ELSE bs.warnings,
     g |-> bs.g]

\* doc: the module blocks of the text, in document order
parseNodesHtml(doc, verbose, g) ==
    The({finishBuild(b, verbose) : b \in {buildModules(NewBuild(g), doc)}})

-----------------------------------------------------------------------------
(* node-catalog.ts: construction *)

DefaultTtlMs == 60000

s_default1 == <<"@", "t", "i", "m", "e", "-", "l", "i", "n", "e", "-", "a", "u", "t", "o", "p", "i", "l", "o", "t", "/", "n", "o", "d", "e", "-", "r", "e", "d", "-", "n", "o", "d", "e", "s">>
s_default2 == <<"n", "o", "d", "e", "-", "r", "e", "d", "-", "d", "a", "s", "h", "b", "o", "a", "r", "d", "-", "2", "-", "t", "i", "m", "e", "-", "l", "i", "n", "e", "-", "a", "u", "t", "o", "p", "i", "l", "o", "t">>

defaultCustomModules == <<s_default1, s_default2>>

\* /^(1|true|yes|on)$/i.test(String(v || ""))
truthy(v) ==
    ToLowerCase(JsString(OrElse(v, Str(<<>>)))) \in
        {<<"1">>, s_true, <<"y", "e", "s">>, <<"o", "n">>}

\* String(s || "").split(",").map((x) => x.trim()).filter(Boolean)
parseCsv(s) ==
    LET parts == Split(JsString(OrElse(s, Str(<<>>))), ",")
    IN SelectSeq([i \in 1..Len(parts) |-> Trim(parts[i])], LAMBDA x : x # <<>>)

DigitValue(c) == (CHOOSE i \in 1..10 : Digits[i] = c) - 1
IsDigit(c) == \E i \in 1..10 : Digits[i] = c

\* the value of the longest prefix of digits of s, from the value acc
RECURSIVE DigitsValue(_, _)
DigitsValue(s, acc) ==
    IF s = <<>> \/ ~IsDigit(Head(s)) THEN acc
    ELSE DigitsValue(Tail(s), acc * 10 + DigitValue(Head(s)))

\* Number.parseInt(s, 10)
ParseInt(s) ==
    LET t == TrimStart(s)
        neg == t # <<>> /\ Head(t) = "-"
        u == IF t # <<>> /\ Head(t) \in {"-", "+"} THEN Tail(t) ELSE t
    IN IF u = <<>> \/ ~IsDigit(Head(u)) THEN NaN
       ELSE Num(IF neg THEN -DigitsValue(u, 0) ELSE DigitsValue(u, 0))

\* this._ttlMs, from env.NODE_MCP_CATALOG_TTL_MS
TtlOf(ttlEnv) ==
    LET ttlMs == IF Truthy(ttlEnv) THEN ParseInt(JsString(ttlEnv))
                 ELSE Num(DefaultTtlMs)
    IN IF ttlMs.t = "number" /\ ttlMs.v >= 0 THEN ttlMs.v ELSE DefaultTtlMs

\* this._customModules, from env.TIME_LINE_CUSTOM_NODE_MODULES
CustomModulesOf(allowEnv) ==
    SeqToSet(IF Truthy(allowEnv) THEN parseCsv(allowEnv) ELSE defaultCustomModules)

\* this._verbose
VerboseOf(configVerbose, verboseEnv) == Truthy(configVerbose) \/ truthy(verboseEnv)

\* the cache the constructor installs
InitialCache ==
    [ts |-> 0, nodesByType |-> EmptyObj, nodes |-> <<>>, warnings |-> <<>>,
     nodeRedUrl |-> Null]

-----------------------------------------------------------------------------
(* node-catalog.ts: the operations, as functions of what they read *)

\* _isExpired with the comparison >= : a snapshot expires when its age
\* reaches the threshold
IsExpiredAtThreshold(ttl, now, cacheTs) == IF ttl = 0 THEN TRUE ELSE now - cacheTs >= ttl

\* _isExpired()
IsExpired(ttl, now, cacheTs) == IF ttl = 0 THEN TRUE ELSE now - cacheTs > ttl

\* getCatalog without the test of an empty snapshot
NeedsRefreshUnlessEmpty(force, ttl, now, c) == force \/ IsExpired(ttl, now, c.ts)

\* the condition of getCatalog under which it awaits refresh()
NeedsRefresh(force, ttl, now, c) ==
    force \/ IsExpired(ttl, now, c.ts) \/ Len(c.nodes) = 0

\* _markCustom without the test of the beginning of the module name
markCustomByPackage(g, customModules, node) ==
    LET mp == PropGet(g, node, k_modulePackage)
        pkg == IF Truthy(mp) THEN JsString(mp) ELSE <<>>
    IN ObjSet(Props(g, node), k_isCustom, Bool(pkg # <<>> /\ pkg \in customModules))

\* _markCustom(node)
markCustom(g, customModules, node) ==
    LET mp == PropGet(g, node, k_modulePackage)
        mo == PropGet(g, node, k_module)
        pkg == IF Truthy(mp) THEN JsString(mp) ELSE <<>>
        module == IF Truthy(mo) THEN JsString(mo) ELSE <<>>
        isCustom == \/ (pkg # <<>> /\ pkg \in customModules)
                    \/ (module # <<>> /\ \E m \in customModules : StartsWith(module, m))
    IN ObjSet(Props(g, node), k_isCustom, Bool(isCustom))

\* for (const n of nodes) nodesByType[n.type] = n, on Object.create(null)
RECURSIVE IndexByType(_, _)
IndexByType(nodes, acc) ==
    IF nodes = <<>> THEN acc
    ELSE IF Len(nodes) = 1
         THEN The({b : b \in {ObjSet(acc, JsString(ObjGet(nodes[1], k_type)),
                                     nodes[1])}})
    ELSE The({IndexByType(SubSeq(nodes, Len(nodes) \div 2 + 1, Len(nodes)), b) :
                 b \in {IndexByType(SubSeq(nodes, 1, Len(nodes) \div 2), acc)}})

\* the object refresh() assigns to this._cache, from the value parseNodesHtml
\* returned
\* a snapshot that keeps the timestamp of the constructor's cache
NewCacheUnstamped(parsed, customModules, now, nodeRedUrl) ==
    LET nodes == [i \in 1..Len(parsed.nodes) |->
                     markCustom(parsed.g, customModules, parsed.nodes[i])]
    IN [ts |-> 0,
        nodesByType |-> IndexByType(nodes, EmptyObj),
        nodes |-> nodes,
        warnings |-> parsed.warnings,
        nodeRedUrl |-> OrElse(nodeRedUrl, Null)]

NewCache(parsed, customModules, now, nodeRedUrl) ==
    LET nodes == [i \in 1..Len(parsed.nodes) |->
                     markCustom(parsed.g, customModules, parsed.nodes[i])]
    IN [ts |-> now,
        nodesByType |-> IndexByType(nodes, EmptyObj),
        nodes |-> nodes,
        warnings |-> parsed.warnings,
        nodeRedUrl |-> OrElse(nodeRedUrl, Null)]


OrNull(x) == Coalesce(x, Null)

\* the entry list() makes of a node
ListEntry(n) ==
    Obj(<< <<k_type, ObjGet(n, k_type)>>,
           <<k_category, OrNull(ObjGet(n, k_category))>>,
           <<k_paletteLabel, OrNull(ObjGet(n, k_paletteLabel))>>,
           <<k_module, OrNull(ObjGet(n, k_module))>>,
           <<k_modulePackage, OrNull(ObjGet(n, k_modulePackage))>>,
           <<k_moduleSet, OrNull(ObjGet(n, k_moduleSet))>>,
           <<k_isCustom, Bool(Truthy(ObjGet(n, k_isCustom)))>>,
           <<k_inputs, OrNull(ObjGet(n, k_inputs))>>,
           <<k_outputs, OrNull(ObjGet(n, k_outputs))>> >>)

CustomNodes(nodes) == SelectSeq(nodes, LAMBDA n : Truthy(ObjGet(n, k_isCustom)))

\* list({customOnly}) once getCatalog() has returned c
ListOf(c, customOnly) ==
    LET nodes == IF customOnly THEN CustomNodes(c.nodes) ELSE c.nodes
    IN [i \in 1..Len(nodes) |-> ListEntry(nodes[i])]

\* getNode(type) once getCatalog() has returned c
GetNodeOf(c, type) ==
    OrElse(ObjGet(c.nodesByType, JsString(OrElse(type, Str(<<>>)))), Null)

\* Object.keys of an object or an array
KeysOf(x) ==
    IF x.t = "array" THEN [i \in 1..Len(x.v) |-> NatToString(i - 1)]
    ELSE IF x.t = "object" THEN ObjKeys(x)
    ELSE <<>>

\* x?.text
TextOf(g, x) == IF IsNullish(x) THEN Undefined ELSE PropGet(g, x, k_text)

\* nodeHaystack(n)
nodeHaystack(g, n) ==
    LET defaults == PropGet(g, n, k_defaults)
        parts == <<PropGet(g, n, k_type), PropGet(g, n, k_category),
                   PropGet(g, n, k_paletteLabel), PropGet(g, n, k_module),
                   PropGet(g, n, k_modulePackage), PropGet(g, n, k_moduleSet),
                   TextOf(g, PropGet(g, n, k_help))>> \o
                 (IF Truthy(defaults) /\ TypeofObject(defaults)
                  THEN <<Str(Join(KeysOf(defaults), <<" ">>))>> ELSE <<>>)
        kept == FilterTruthy(parts)
    IN ToLowerCase(Join([i \in 1..Len(kept) |-> JsString(kept[i])], <<"\n">>))

ScoreScale == 10000

\* a score without the cap: idx + hay.length / 10_000, times ScoreScale
ScoreOfUncapped(idx, hayLength) == idx * ScoreScale + hayLength

\* idx + Math.min(hay.length, 10_000) / 10_000, times ScoreScale
ScoreOf(idx, hayLength) ==
    idx * ScoreScale + (IF hayLength < ScoreScale THEN hayLength ELSE ScoreScale)

MaxLimit == 200
DefaultLimit == 25
SnippetLength == 400

\* lim without the upper end of the clamp: Math.max(1, limit)
LimitOfAtLeastOne(limit) ==
    LET l == IF limit = Undefined THEN Num(DefaultLimit) ELSE limit
    IN IF l.t = "number" THEN (IF l.v < 1 THEN 1 ELSE l.v) ELSE DefaultLimit

\* lim of search
LimitOf(limit) ==
    LET l == IF limit = Undefined THEN Num(DefaultLimit) ELSE limit
    IN IF l.t = "number"
       THEN (IF l.v > MaxLimit THEN MaxLimit ELSE IF l.v < 1 THEN 1 ELSE l.v)
       ELSE DefaultLimit

\* q of search
QueryOf(query) == ToLowerCase(Trim(JsString(OrElse(query, Str(<<>>)))))

\* the loop of search over the nodes: the matches, in the order of the nodes
\* the loop of search without the test of the category
searchMatchesAnyCategory(g, nodes, q, moduleFilter, categoryFilter) ==
    LET scored(n, hay) ==
            LET idx == IndexOf(hay, q)
            IN IF idx = -1 THEN <<>>
               ELSE <<[node |-> n, score |-> ScoreOf(idx, Len(hay))]>>
        pushed(n) ==
            LET m == ToLowerCase(JsString(OrElse(PropGet(g, n, k_module), Str(<<>>))))
            IN IF moduleFilter # Null /\ ~Includes(m, moduleFilter.v) THEN <<>>
               ELSE The({scored(n, hay) : hay \in {nodeHaystack(g, n)}})
        all == [i \in 1..Len(nodes) |-> pushed(nodes[i])]
        pushing == SelectSeq([i \in 1..Len(nodes) |-> i], LAMBDA i : all[i] # <<>>)
    IN [k \in 1..Len(pushing) |-> all[pushing[k]][1]]

searchMatches(g, nodes, q, moduleFilter, categoryFilter) ==
    LET scored(n, hay) ==
            LET idx == IndexOf(hay, q)
            IN IF idx = -1 THEN <<>>
               ELSE <<[node |-> n, score |-> ScoreOf(idx, Len(hay))]>>
        pushed(n) ==
            LET m == ToLowerCase(JsString(OrElse(PropGet(g, n, k_module), Str(<<>>))))
                cat == ToLowerCase(JsString(OrElse(PropGet(g, n, k_category),
                                                   Str(<<>>))))
            IN IF moduleFilter # Null /\ ~Includes(m, moduleFilter.v) THEN <<>>
               ELSE IF categoryFilter # Null /\ ~Includes(cat, categoryFilter.v)
                    THEN <<>>
               ELSE The({scored(n, hay) : hay \in {nodeHaystack(g, n)}})
        all == [i \in 1..Len(nodes) |-> pushed(nodes[i])]
        pushing == SelectSeq([i \in 1..Len(nodes) |-> i], LAMBDA i : all[i] # <<>>)
    IN [k \in 1..Len(pushing) |-> all[pushing[k]][1]]

\* matches.sort((a, b) => a.score - b.score); the sort is stable: a, which
\* came after the matches of sorted, goes behind the last of them whose score
\* is not above its own
InsertByScore(sorted, a) ==
    LET notAfter == {i \in 1..Len(sorted) : a.score >= sorted[i].score}
        k == IF notAfter = {} THEN 0
             ELSE CHOOSE i \in notAfter : \A j \in notAfter : j <= i
    IN SubSeq(sorted, 1, k) \o <<a>> \o SubSeq(sorted, k + 1, Len(sorted))

\* sorted with the matches of xs inserted one after the other
RECURSIVE SortScoresInto(_, _)
SortScoresInto(sorted, xs) ==
    IF xs = <<>> THEN sorted
    ELSE IF Len(xs) = 1 THEN The({b : b \in {InsertByScore(sorted, xs[1])}})
    ELSE The({SortScoresInto(b, SubSeq(xs, Len(xs) \div 2 + 1, Len(xs))) :
                 b \in {SortScoresInto(sorted, SubSeq(xs, 1, Len(xs) \div 2))}})

SortByScore(xs) == SortScoresInto(<<>>, xs)

Slice(s, n) == SubSeq(s, 1, IF Len(s) < n THEN Len(s) ELSE n)

\* the entry search() makes of a node
SearchEntry(g, n) ==
    LET helpText == OrElse(TextOf(g, PropGet(g, n, k_help)), Str(<<>>))
        templateText == OrElse(TextOf(g, PropGet(g, n, k_template)), Str(<<>>))
        snippet == OrElse(Str(Slice(JsString(helpText), SnippetLength)),
                          OrElse(Str(Slice(JsString(templateText), SnippetLength)),
                                 Str(<<>>)))
    IN Obj(<< <<k_type, PropGet(g, n, k_type)>>,
              <<k_category, OrNull(PropGet(g, n, k_category))>>,
              <<k_paletteLabel, OrNull(PropGet(g, n, k_paletteLabel))>>,
              <<k_module, OrNull(PropGet(g, n, k_module))>>,
              <<k_modulePackage, OrNull(PropGet(g, n, k_modulePackage))>>,
              <<k_isCustom, Bool(Truthy(PropGet(g, n, k_isCustom)))>>,
              <<k_snippet, snippet>> >>)

\* search(a) once getCatalog() has returned c; a holds the arguments query,
\* customOnly, module, category, limit
SearchOf(g, c, a) ==
    LET nodes == IF a.customOnly THEN CustomNodes(c.nodes) ELSE c.nodes
        moduleFilter == IF Truthy(a.module)
                        THEN Str(ToLowerCase(JsString(a.module))) ELSE Null
        categoryFilter == IF Truthy(a.category)
                          THEN Str(ToLowerCase(JsString(a.category))) ELSE Null
        matches == SortByScore(searchMatches(g, nodes, QueryOf(a.query),
                                             moduleFilter, categoryFilter))
        top == Slice(matches, LimitOf(a.limit))
    IN [i \in 1..Len(top) |-> SearchEntry(g, top[i].node)]

-----------------------------------------------------------------------------
(* tools/nodes.ts: catalog-get-node *)

\* { ...x, html: undefined }
WithoutHtml(g, x) == ObjSet(Props(g, x), k_html, Undefined)

\* The handler without the copy: it sets help and template of the record of
\* the snapshot.
getNodeToolInPlace(g, heap, ref, node, includeHtml) ==
    IF ~Truthy(node) THEN [heap |-> heap, out |-> Null]
    ELSE LET help == PropGet(g, node, k_help)
             out1 == IF ~includeHtml /\ Truthy(help)
                     THEN ObjSet(node, k_help, WithoutHtml(g, help)) ELSE node
             template == PropGet(g, out1, k_template)
             out2 == IF ~includeHtml /\ Truthy(template)
                     THEN ObjSet(out1, k_template, WithoutHtml(g, template)) ELSE out1
             s == heap[ref]
             nodes == [i \in 1..Len(s.nodes) |->
                          IF s.nodes[i] = node THEN out2 ELSE s.nodes[i]]
         IN [heap |-> [heap EXCEPT ![ref] =
                          [s EXCEPT !.nodes = nodes,
                                    !.nodesByType = IndexByType(nodes, EmptyObj)]],
             out |-> out2]

\* The part of the handler after getNode returned node, a record of the
\* snapshot heap[ref]: out is what the handler serialises, heap the
\* snapshots after it.  The handler edits a copy, { ...node }, and gives
\* the copy new help and template objects, so the snapshots stay as they
\* were.
getNodeTool(g, heap, ref, node, includeHtml) ==
    IF ~Truthy(node) THEN [heap |-> heap, out |-> Null]
    ELSE LET out0 == node
             help == PropGet(g, out0, k_help)
             out1 == IF ~includeHtml /\ Truthy(help)
                     THEN ObjSet(out0, k_help, WithoutHtml(g, help)) ELSE out0
             template == PropGet(g, out1, k_template)
             out2 == IF ~includeHtml /\ Truthy(template)
                     THEN ObjSet(out1, k_template, WithoutHtml(g, template)) ELSE out1
         IN [heap |-> heap, out |-> out2]

-----------------------------------------------------------------------------
(* The documents and requests the model draws its inputs from *)

t_a == <<"a">>
t_b == <<"b">>
t_x == <<"x">>
t_y == <<"y">>
m_custom == <<"m", "/", "q">>
m_core == <<"n", "/", "i">>

\* the callee RED.nodes.registerType
RegisterTypeCallee ==
    MemberExpression(
        MemberExpression(Identifier(s_RED), Identifier(s_nodes), FALSE,
                         s_RED \o <<".">> \o s_nodes),
        Identifier(s_registerType), FALSE,
        s_RED \o <<".">> \o s_nodes \o <<".">> \o s_registerType)

StringLiteral(s) == Literal(Str(s), <<"'">> \o s \o <<"'">>)

\* RED.nodes.registerType(args), as a statement
RegisterStatement(args) ==
    ExpressionStatement(CallExpression(RegisterTypeCallee, args, <<"R", "(", ")">>))

\* { category: 'c' }
CategoryOptions(c) ==
    ObjectExpression(<<Property(Identifier(k_category), StringLiteral(c), FALSE)>>,
                     <<"{">> \o k_category \o <<":", "'">> \o c \o <<"'", "}">>)

\* a registration script with the given statements
JsElement(stmts) ==
    ScriptElement(Str(s_text_javascript), Undefined, Undefined,
                  Fragment(<<"j", "s">>, <<"j", "s">>, <<>>), TRUE, Program(stmts))

\* <script type="text/html" data-help-name="type"><p>text</p></script>
HelpElement(type, text) ==
    ScriptElement(Str(s_text_html), Str(type), Undefined,
                  Fragment(<<"<", "p", ">">> \o text \o <<"<", "/", "p", ">">>, text, <<>>),
                  FALSE, Program(<<>>))

DocA ==
    <<ModuleBlock(m_custom,
                  <<HelpElement(t_a, <<"H", "i">>),
                    JsElement(<<RegisterStatement(<<StringLiteral(t_a),
                                                    CategoryOptions(t_x)>>)>>)>>)>>

DocB ==
    <<ModuleBlock(m_core,
                  <<JsElement(<<RegisterStatement(<<StringLiteral(t_a),
                                                    CategoryOptions(t_y)>>)>>)>>)>>

\* What the upstream may answer a fetch with: a transport fault (the fetch
\* rejects), a non-success status, or a success whose body is JSON or text.
\* body names the document of a text body.
Response(kind, json, body) == [kind |-> kind, json |-> json, body |-> body]

NoBody == [kind |-> "none"]
BodyA == [kind |-> "A"]
BodyB == [kind |-> "B"]

Responses ==
    {Response("fault", FALSE, NoBody), Response("status", FALSE, NoBody),
     Response("ok", TRUE, NoBody), Response("ok", FALSE, BodyA)}

\* The documents of one direct call RED.nodes.registerType(typeArg,
\* optionsArg) in the module m/q, with or without a second module that
\* registers the type b and documents it.
TypeArgs == {"'a'", "'constructor'", "'__proto__'", "''", "t", "5", "template", ""}
OptionsArgs == {"{category}", "{all}", "opts", "f()", ""}
StringLiteralArgs == {"'a'", "'constructor'", "'__proto__'", "''"}
\* more names, for the documents of a build
NameArgs == {"'B'", "'toString'", "'options'"}
ObjectLiteralArgs == {"{category}", "{all}"}

\* the value of a string-literal type argument
TypeOfArg(k) ==
    CASE k = "'a'" -> t_a
      [] k = "'constructor'" -> s_constructor
      [] k = "'__proto__'" -> s_proto
      [] k = "'B'" -> <<"B">>
      [] k = "'toString'" -> s_toString
      [] k = "'options'" -> k_options
      [] OTHER -> <<>>

\* the type argument: a string literal, the identifier t, the number 5, a
\* template literal of the text a (its quotes written ~ here), or none
TypeArgNode(k) ==
    CASE k \in StringLiteralArgs \cup NameArgs -> StringLiteral(TypeOfArg(k))
      [] k = "t" -> Identifier(<<"t">>)
      [] k = "5" -> Literal(Num(5), <<"5">>)
      [] k = "template" -> TemplateLiteral(<<Str(t_a)>>, <<>>, <<"~", "a", "~">>)
      [] OTHER -> NoNode

k_value == <<"v", "a", "l", "u", "e">>
t_p == <<"p">>
t_c == <<"#", "f">>
t_i == <<"i", ".", "s", "v", "g">>
t_r == <<"r", "i", "g", "h", "t">>
t_o == <<"o">>

StringProperty(key, s) == Property(Identifier(key), StringLiteral(s), FALSE)
NumberProperty(key, n) ==
    Property(Identifier(key), Literal(Num(n), NatToString(n)), FALSE)

\* { category: 'x', paletteLabel: 'p', color: '#f', icon: 'i.svg',
\*   align: 'right', inputs: 1, outputs: 2, outputLabels: ['o'],
\*   defaults: { name: { value: '' } } }
AllOptions ==
    ObjectExpression(
        <<StringProperty(k_category, t_x), StringProperty(k_paletteLabel, t_p),
          StringProperty(k_color, t_c), StringProperty(k_icon, t_i),
          StringProperty(k_align, t_r), NumberProperty(k_inputs, 1),
          NumberProperty(k_outputs, 2),
          Property(Identifier(k_outputLabels),
                   ArrayExpression(<<StringLiteral(t_o)>>, <<"[", "'", "o", "'", "]">>),
                   FALSE),
          Property(Identifier(k_defaults),
                   ObjectExpression(
                       <<Property(Identifier(k_name),
                                  ObjectExpression(<<StringProperty(k_value, <<>>)>>,
                                                   <<"{", "v", "}">>),
                                  FALSE)>>,
                       <<"{", "n", "}">>),
                   FALSE)>>,
        <<"{", "a", "l", "l", "}">>)

\* the expressions of ExprOptions, with their text
CallF == CallExpression(Identifier(<<"f">>), <<>>, <<"f", "(", ")">>)
MemberAB ==
    MemberExpression(Identifier(<<"a">>), Identifier(<<"b">>), FALSE, <<"a", ".", "b">>)
BinarySum ==
    BinaryExpression(Literal(Num(1), <<"1">>), Literal(Num(2), <<"2">>),
                     <<"1", "+", "2">>)
LogicalOr ==
    LogicalExpression(Identifier(<<"a">>), Identifier(<<"b">>),
                      <<"a", "|", "|", "b">>)
ConditionalC ==
    ConditionalExpression(Identifier(<<"c">>), Literal(Num(1), <<"1">>),
                          Literal(Num(2), <<"2">>), <<"c", "?", "1", ":", "2">>)
NewF == NewExpression(Identifier(<<"F">>), <<>>, <<"n", "e", "w", " ", "F", "(", ")">>)

\* { category: f(), color: a.b, icon: 1+2, align: a||b, inputs: c?1:2,
\*   outputs: new F(), outputLabels: [f(), [a.b]],
\*   defaults: { name: { value: new F() } } }
ExprOptions ==
    ObjectExpression(
        <<Property(Identifier(k_category), CallF, FALSE),
          Property(Identifier(k_color), MemberAB, FALSE),
          Property(Identifier(k_icon), BinarySum, FALSE),
          Property(Identifier(k_align), LogicalOr, FALSE),
          Property(Identifier(k_inputs), ConditionalC, FALSE),
          Property(Identifier(k_outputs), NewF, FALSE),
          Property(Identifier(k_outputLabels),
                   ArrayExpression(<<CallF,
                                     ArrayExpression(<<MemberAB>>,
                                                     <<"[", "a", ".", "b", "]">>)>>,
                                   <<"[", "f", "]">>),
                   FALSE),
          Property(Identifier(k_defaults),
                   ObjectExpression(
                       <<Property(Identifier(k_name),
                                  ObjectExpression(
                                      <<Property(Identifier(k_value), NewF, FALSE)>>,
                                      <<"{", "v", "}">>),
                                  FALSE)>>,
                       <<"{", "n", "}">>),
                   FALSE)>>,
        <<"{", "e", "x", "p", "r", "s", "}">>)

OptionsArgNode(k) ==
    CASE k = "{category}" -> CategoryOptions(t_x)
      [] k = "{all}" -> AllOptions
      [] k = "opts" -> Identifier(<<"o", "p", "t", "s">>)
      [] k = "f()" -> CallF
      [] k = "{category:y}" -> CategoryOptions(t_y)
      [] k = "{category:''}" -> CategoryOptions(<<>>)
      [] k = "{category:null}" ->
            ObjectExpression(<<Property(Identifier(k_category),
                                        Literal(Null, s_null), FALSE)>>,
                             <<"{">> \o k_category \o <<":">> \o s_null \o <<"}">>)
      [] k = "{color}" ->
            ObjectExpression(<<StringProperty(k_color, t_c)>>,
                             <<"{">> \o k_color \o <<":", "'">> \o t_c \o <<"'", "}">>)
      [] k = "{}" -> ObjectExpression(<<>>, <<"{", "}">>)
      [] k = "{exprs}" -> ExprOptions
      [] OTHER -> NoNode

DirectBody(typeArg, optionsArg, other) ==
    [kind |-> "direct", typeArg |-> typeArg, optionsArg |-> optionsArg,
     other |-> other]

DirectBodies ==
    {DirectBody(t, o, x) : t \in TypeArgs \ {""}, o \in OptionsArgs, x \in BOOLEAN}
    \cup {DirectBody("", "", x) : x \in BOOLEAN}

\* the arguments of the call
DirectArgs(body) ==
    IF body.typeArg = "" THEN <<>>
    ELSE IF body.optionsArg = "" THEN <<TypeArgNode(body.typeArg)>>
    ELSE <<TypeArgNode(body.typeArg), OptionsArgNode(body.optionsArg)>>

\* the document of body; without the call when call is FALSE
DirectDoc(body, call) ==
    <<ModuleBlock(m_custom,
                  <<JsElement(IF call THEN <<RegisterStatement(DirectArgs(body))>>
                              ELSE <<>>)>>)>>
    \o IF body.other
       THEN <<ModuleBlock(m_core,
                          <<HelpElement(t_b, <<"H", "i">>),
                            JsElement(<<RegisterStatement(<<StringLiteral(t_b),
                                                            CategoryOptions(t_y)>>)>>)>>)>>
       ELSE <<>>

\* The documents of a build.  An item names one <script> element:
\*   reg       a script with one direct call registerType(type, arg)
\*   help      a help fragment for the name type with the text arg
\*   template  a template fragment for the name type; arg "T" has one input
\*             element node-input-name, arg "" is an empty fragment
\*   broken    a script acorn rejects
\*   wrap      a script that declares the wrapper reg in one of its forms and
\*             calls it once with the arguments type and arg; in the form
\*             after, the call stands before the declaration
Item(k, type, arg, form) == [k |-> k, type |-> type, arg |-> arg, form |-> form]

n_reg == <<"r", "e", "g">>
p_label == <<"l", "a", "b", "e", "l">>
t_g == <<"g">>

\* { category: label, paletteLabel: type }
WrapperOptions ==
    ObjectExpression(<<Property(Identifier(k_category), Identifier(p_label), FALSE),
                       Property(Identifier(k_paletteLabel), Identifier(k_type), FALSE)>>,
                     <<"{", "w", "}">>)

\* { RED.nodes.registerType(type, { category: label, paletteLabel: type }); }
WrapperBlock ==
    BlockStatement(<<RegisterStatement(<<Identifier(k_type), WrapperOptions>>)>>)

WrapperForms == {"function", "const", "arrow", "swapped", "after"}

\* the parameters of the wrapper: (type, label), or (label, type) when swapped
WrapperParams(form) ==
    IF form = "swapped" THEN <<Identifier(p_label), Identifier(k_type)>>
    ELSE <<Identifier(k_type), Identifier(p_label)>>

\* function reg(type, label) {..}, const reg = function (type, label) {..},
\* const reg = (type, label) => {..}, function reg(label, type) {..}
WrapperDeclaration(form) ==
    CASE form = "const" ->
            VariableDeclaration(
                <<VariableDeclarator(Identifier(n_reg),
                                     FunctionExpression(WrapperParams(form), WrapperBlock,
                                                        <<"f", "n">>))>>)
      [] form = "arrow" ->
            VariableDeclaration(
                <<VariableDeclarator(Identifier(n_reg),
                                     ArrowFunctionExpression(WrapperParams(form),
                                                             WrapperBlock,
                                                             <<"=", ">">>))>>)
      [] OTHER -> FunctionDeclaration(Identifier(n_reg), WrapperParams(form),
                                      WrapperBlock)

LabelArgs == {"'g'", "x", "f()", ""}

\* the label argument: the string 'g', the identifier x, the call f(), or none
LabelArgNode(k) ==
    CASE k = "'g'" -> StringLiteral(t_g)
      [] k = "x" -> Identifier(t_x)
      [] k = "f()" -> CallF
      [] OTHER -> NoNode

\* reg(type, label), reg(type) or reg(); reg(label, type) when swapped
WrapperCallStatement(item) ==
    LET type == TypeArgNode(item.type)
        label == LabelArgNode(item.arg)
        args == IF type = NoNode THEN <<>>
                ELSE IF label = NoNode THEN <<type>>
                ELSE IF item.form = "swapped" THEN <<label, type>>
                ELSE <<type, label>>
    IN ExpressionStatement(CallExpression(Identifier(n_reg), args, <<"r", "(", ")">>))

\* a fragment with one <input id="node-input-name">
TemplateElement(type, html) ==
    ScriptElement(Str(s_text_html), Undefined, Str(type),
                  Fragment(html, <<>>, IF html = <<>> THEN <<>>
                                       ELSE <<p_node_input \o k_name>>),
                  FALSE, Program(<<>>))

\* <script type="text/html" data-help-name="type"></script>
EmptyHelpElement(type) ==
    ScriptElement(Str(s_text_html), Str(type), Undefined, Fragment(<<>>, <<>>, <<>>),
                  FALSE, Program(<<>>))

\* a script acorn rejects; it holds the text of a registration of the type a
BrokenElement ==
    ScriptElement(Str(s_text_javascript), Undefined, Undefined,
                  Fragment(<<"R", "(">>, <<"R", "(">>, <<>>), FALSE,
                  Program(<<RegisterStatement(<<StringLiteral(t_a),
                                                CategoryOptions(t_y)>>)>>))

\* the element of an item
ElementOf(item) ==
    CASE item.k = "reg" ->
            JsElement(<<RegisterStatement(
                          IF item.arg = "" THEN <<TypeArgNode(item.type)>>
                          ELSE <<TypeArgNode(item.type), OptionsArgNode(item.arg)>>)>>)
      [] item.k = "help" ->
            IF item.arg = "" THEN EmptyHelpElement(TypeOfArg(item.type))
            ELSE HelpElement(TypeOfArg(item.type), <<"H", "i">>)
      [] item.k = "template" ->
            TemplateElement(TypeOfArg(item.type),
                            IF item.arg = "" THEN <<>> ELSE <<"<", "i", ">">>)
      [] item.k = "broken" -> BrokenElement
      [] OTHER ->
            JsElement(IF item.form = "after"
                      THEN <<WrapperCallStatement(item), WrapperDeclaration("function")>>
                      ELSE <<WrapperDeclaration(item.form), WrapperCallStatement(item)>>)

m_other == <<"m", "x", "/", "q">>

\* A document of the items, in their order: each in a module of its own
\* (m/q, n/i, mx/q) when split, all in the module m/q otherwise.
BuildBody(items, split) == [kind |-> "build", items |-> items, split |-> split]

\* the names of the modules of a split document
ModuleNames == <<m_custom, m_core, m_other>>

BuildDoc(body) ==
    IF body.split
    THEN [i \in 1..Len(body.items) |->
             ModuleBlock(ModuleNames[i], <<ElementOf(body.items[i])>>)]
    ELSE <<ModuleBlock(m_custom,
                       [i \in 1..Len(body.items) |-> ElementOf(body.items[i])])>>

\* registrations of the type a, and help and template fragments for it
MergeOptionsArgs ==
    {"{category}", "{category:y}", "{color}", "{category:null}", "{category:''}",
     "{}", ""}
MergeRegs == {Item("reg", "'a'", o, "") : o \in MergeOptionsArgs}
MergeItems ==
    MergeRegs \cup {Item(k, "'a'", t, "") : k \in {"help", "template"}, t \in {"T", ""}}
ThreeRegs ==
    {Item("reg", "'a'", o, "") : o \in {"{category}", "{category:y}", "{color}", ""}}

MergeBodies ==
    {BuildBody(<<i, j>>, sp) : i \in MergeItems, j \in MergeItems, sp \in BOOLEAN}
    \cup {BuildBody(<<i, j, k>>, FALSE) : i \in ThreeRegs, j \in ThreeRegs, k \in ThreeRegs}

\* one wrapper and one call of it
WrapTypeArgs == {"'a'", "'__proto__'", "''", "5", ""}
WrapItems ==
    {Item("wrap", t, l, f) : t \in WrapTypeArgs \ {""}, l \in LabelArgs \ {""},
                             f \in WrapperForms}
    \cup {Item("wrap", t, "", f) : t \in WrapTypeArgs, f \in WrapperForms \ {"swapped"}}
WrapBodies == {BuildBody(<<i>>, FALSE) : i \in WrapItems}

\* a script that does not parse, between two other elements
BrokenItem == Item("broken", "", "", "")
AroundItems ==
    {Item("help", "'a'", "T", ""), Item("template", "'a'", "T", ""),
     Item("reg", "'a'", "{category}", ""), Item("reg", "'B'", "{color}", "")}
FailBodies ==
    {BuildBody(<<i, BrokenItem, j>>, sp) :
        i \in AroundItems, j \in AroundItems, sp \in BOOLEAN}
    \cup {BuildBody(<<BrokenItem>>, FALSE)}

\* names that Object.prototype has, and names in two cases
NameItems ==
    {Item("help", n, "T", "") : n \in {"'__proto__'", "'toString'", "'options'"}}
    \cup {Item("template", "'toString'", "T", "")}
    \cup {Item("reg", n, "{category}", "") :
             n \in {"'__proto__'", "'constructor'", "'a'", "'B'"}}
NameBodies == {BuildBody(<<i, j>>, FALSE) : i \in NameItems, j \in NameItems}

\* option values that are expressions
ExprBodies ==
    {BuildBody(<<Item("reg", "'a'", o, "")>>, FALSE) : o \in {"{exprs}", "{all}"}}

\* what a later build is answered with, if not with the document before
SecondBodies ==
    {BuildBody(<<Item("template", "'toString'", "T", "")>>, FALSE),
     BuildBody(<<Item("reg", "'a'", "{category}", "")>>, FALSE)}

\* three fragments that touch the types a, B and constructor, or none
AttrItems ==
    {Item("help", "'a'", "T", ""), Item("help", "'a'", "", ""),
     Item("template", "'a'", "T", ""), Item("reg", "'a'", "{category}", ""),
     Item("reg", "'B'", "{color}", ""), Item("wrap", "'a'", "'g'", "function"),
     Item("wrap", "5", "'g'", "function"), Item("help", "'constructor'", "T", ""),
     Item("reg", "'constructor'", "{category}", "")}
AttrBodies ==
    {BuildBody(<<i, j, k>>, sp) :
        i \in AttrItems, j \in AttrItems, k \in AttrItems, sp \in BOOLEAN}
AttrResponses == {Response("ok", FALSE, b) : b \in AttrBodies}

BuildBodies ==
    MergeBodies \cup WrapBodies \cup FailBodies \cup NameBodies \cup ExprBodies
    \cup SecondBodies

BuildResponses == {Response("ok", FALSE, b) : b \in BuildBodies}

\* The documents of the reads: the types a, B and options, registered in
\* the modules m/q, n/i and mx/q; and a help fragment named toString.
ListBody ==
    BuildBody(<<Item("reg", "'a'", "{category}", ""), Item("reg", "'B'", "{category}", ""),
                Item("reg", "'options'", "{category}", "")>>, TRUE)
ToStringBody == BuildBody(<<Item("help", "'toString'", "T", "")>>, FALSE)

ReadResponses == {Response("ok", FALSE, b) : b \in {ListBody, ToStringBody}}

ParseResponses == {Response("ok", FALSE, b) : b \in DirectBodies}

\* the module blocks of a body
\* A document of n registrations a1 .. an in one script of the module m/q:
\* one node, a few, one more than the default limit of search, one more than
\* its greatest limit.
ManyBody(n) == [kind |-> "many", n |-> n]
ManySizes == {1, 3, DefaultLimit + 1, MaxLimit + 1}
ManyDoc(n) ==
    <<ModuleBlock(m_custom,
         <<JsElement([i \in 1..n |->
              RegisterStatement(<<StringLiteral(t_a \o NatToString(i))>>)])>>)>>

LimitResponses == {Response("ok", FALSE, ManyBody(n)) : n \in ManySizes}

\* Documents of one function reg and one call of it.  The function is
\* declared in one of four ways, its parameters are plain names or not, and
\* its body holds a registration call or none; the call has up to three
\* arguments.
t_k == <<"k">>
t_d == <<"d">>
n_other == <<"o", "t", "h", "e", "r">>
n_opts == <<"o", "p", "t", "s">>
n_proto_param == s_proto

Declarations == {"function", "const", "arrow", "arrowexpr"}
ParamLists == {"plain", "swapped", "default", "defaultfirst", "pattern", "rest", "proto"}
InnerCalls == {"param", "literal", "outer", "opts", "noopts", "second", "none"}
CallArgs == {"a,g", "g,a", "a", "", "'',g", "5,g", "x,g", "~a~,g", "a,x", "a,g,d"}

\* (type, label), (label, type), (type, label = 'd'), (label = 'd', type),
\* ({}, type), (type, ...label), (type, __proto__)
ParamNodes(k) ==
    CASE k = "plain" -> <<Identifier(k_type), Identifier(p_label)>>
      [] k = "swapped" -> <<Identifier(p_label), Identifier(k_type)>>
      [] k = "default" ->
            <<Identifier(k_type), AssignmentPattern(Identifier(p_label), StringLiteral(t_d))>>
      [] k = "defaultfirst" ->
            <<AssignmentPattern(Identifier(p_label), StringLiteral(t_d)), Identifier(k_type)>>
      [] k = "pattern" -> <<ObjectPattern, Identifier(k_type)>>
      [] k = "rest" -> <<Identifier(k_type), RestElement(Identifier(p_label))>>
      [] OTHER -> <<Identifier(k_type), Identifier(n_proto_param)>>

\* { category: __proto__, paletteLabel: type }
ProtoParamOptions ==
    ObjectExpression(<<Property(Identifier(k_category), Identifier(n_proto_param), FALSE),
                       Property(Identifier(k_paletteLabel), Identifier(k_type), FALSE)>>,
                     <<"{", "w", "}">>)

\* the statements of the body of reg
InnerStatements(k, params) ==
    LET options == IF params = "proto" THEN ProtoParamOptions ELSE WrapperOptions
        byParam == RegisterStatement(<<Identifier(k_type), options>>)
        byLiteral == RegisterStatement(<<StringLiteral(t_k), options>>)
    IN CASE k = "param" -> <<byParam>>
         [] k = "literal" -> <<byLiteral>>
         [] k = "outer" -> <<RegisterStatement(<<Identifier(n_other), options>>)>>
         [] k = "opts" -> <<RegisterStatement(<<Identifier(k_type), Identifier(n_opts)>>)>>
         [] k = "noopts" -> <<RegisterStatement(<<Identifier(k_type)>>)>>
         [] k = "second" -> <<byLiteral, byParam>>
         [] OTHER -> <<>>

\* function reg(..) {..}, const reg = function (..) {..},
\* const reg = (..) => {..}, const reg = (..) => RED.nodes.registerType(..)
RegDeclaration(decl, params, inner) ==
    LET stmts == InnerStatements(inner, params)
        block == BlockStatement(stmts)
        expr == IF stmts = <<>> THEN Identifier(t_x) ELSE stmts[1].expression
    IN CASE decl = "function" ->
               FunctionDeclaration(Identifier(n_reg), ParamNodes(params), block)
         [] decl = "const" ->
               VariableDeclaration(
                   <<VariableDeclarator(Identifier(n_reg),
                                        FunctionExpression(ParamNodes(params), block,
                                                           <<"f", "n">>))>>)
         [] decl = "arrow" ->
               VariableDeclaration(
                   <<VariableDeclarator(Identifier(n_reg),
                                        ArrowFunctionExpression(ParamNodes(params), block,
                                                                <<"=", ">">>))>>)
         [] OTHER ->
               VariableDeclaration(
                   <<VariableDeclarator(Identifier(n_reg),
                                        ArrowFunctionExpression(ParamNodes(params), expr,
                                                                <<"=", ">">>))>>)

\* the arguments of the call of reg
ArgNodes(k) ==
    CASE k = "a,g" -> <<StringLiteral(t_a), StringLiteral(t_g)>>
      [] k = "g,a" -> <<StringLiteral(t_g), StringLiteral(t_a)>>
      [] k = "a" -> <<StringLiteral(t_a)>>
      [] k = "'',g" -> <<StringLiteral(<<>>), StringLiteral(t_g)>>
      [] k = "5,g" -> <<Literal(Num(5), <<"5">>), StringLiteral(t_g)>>
      [] k = "x,g" -> <<Identifier(t_x), StringLiteral(t_g)>>
      [] k = "~a~,g" -> <<TemplateLiteral(<<Str(t_a)>>, <<>>, <<"~", "a", "~">>),
                          StringLiteral(t_g)>>
      [] k = "a,x" -> <<StringLiteral(t_a), Identifier(t_x)>>
      [] k = "a,g,d" -> <<StringLiteral(t_a), StringLiteral(t_g), StringLiteral(t_d)>>
      [] OTHER -> <<>>

RegBody(decl, params, inner, args) ==
    [kind |-> "wrapper", decl |-> decl, params |-> params, inner |-> inner,
     args |-> args]

\* the script of the document: the declaration, then the call
RegProgram(body) ==
    Program(<<RegDeclaration(body.decl, body.params, body.inner),
              ExpressionStatement(CallExpression(Identifier(n_reg), ArgNodes(body.args),
                                                 <<"r", "(", ")">>))>>)

RegDoc(body) ==
    <<ModuleBlock(m_custom,
         <<ScriptElement(Str(s_text_javascript), Undefined, Undefined,
                         Fragment(<<"j", "s">>, <<"j", "s">>, <<>>), TRUE,
                         RegProgram(body))>>)>>

RegBodies ==
    {RegBody(d, ps, i, as) :
        d \in Declarations, ps \in ParamLists, i \in InnerCalls, as \in CallArgs}

RegResponses == {Response("ok", FALSE, b) : b \in RegBodies}

\* Documents of a wrapper whose options hold a template literal, and one
\* call of it:
\*   function reg(type, label) {
\*     RED.nodes.registerType(type, { category: ~p${..}-${..}q~ }); }
\* (~ stands for the backquote)
\*   reg('a', ..)
\* The template has up to two embedded expressions.
MaxEmbedded == 2

EmbeddedKinds ==
    {"'b'", "5", "true", "null", "label", "type", "x", "f()", "-5", "~c~", "~${x}~"}
LabelArgKinds == {"'g'", "7", "false", "null", "x", ""}

EmbeddedNode(k) ==
    CASE k = "'b'" -> StringLiteral(t_b)
      [] k = "5" -> Literal(Num(5), <<"5">>)
      [] k = "true" -> Literal(Bool(TRUE), s_true)
      [] k = "null" -> Literal(Null, s_null)
      [] k = "label" -> Identifier(p_label)
      [] k = "type" -> Identifier(k_type)
      [] k = "x" -> Identifier(t_x)
      [] k = "f()" -> CallF
      [] k = "-5" -> UnaryExpression("-", Literal(Num(5), <<"5">>), <<"-", "5">>)
      [] k = "~c~" -> TemplateLiteral(<<Str(<<"c">>)>>, <<>>, <<"~", "c", "~">>)
      [] OTHER -> TemplateLiteral(<<Str(<<>>), Str(<<>>)>>, <<Identifier(t_x)>>,
                                  <<"~", "$", "{", "x", "}", "~">>)

\* the literal text before, between and after the embedded expressions
QuasiTexts == [i \in 1..(MaxEmbedded + 1) |-> IF i = 1 THEN <<"p">>
                                           ELSE IF i % 2 = 0 THEN <<"-">> ELSE <<"q">>]

\* the source text of the template with the embedded expressions ks
RECURSIVE TemplateText(_, _)
TemplateText(ks, i) ==
    IF i > Len(ks) THEN QuasiTexts[i]
    ELSE QuasiTexts[i] \o <<"$", "{">> \o EmbeddedNode(ks[i]).src \o <<"}">>
            \o TemplateText(ks, i + 1)

TemplateNode(ks) ==
    TemplateLiteral([i \in 1..(Len(ks) + 1) |-> Str(QuasiTexts[i])],
                    [i \in 1..Len(ks) |-> EmbeddedNode(ks[i])],
                    <<"~">> \o TemplateText(ks, 1) \o <<"~">>)

TemplateArgNode(k) ==
    CASE k = "'g'" -> StringLiteral(t_g)
      [] k = "7" -> Literal(Num(7), <<"7">>)
      [] k = "false" -> Literal(Bool(FALSE), s_false)
      [] k = "null" -> Literal(Null, s_null)
      [] OTHER -> Identifier(t_x)

TemplateProgram(body) ==
    LET options == ObjectExpression(
                       <<Property(Identifier(k_category), TemplateNode(body.exprs),
                                  FALSE)>>,
                       <<"{", "t", "}">>)
        args == IF body.arg = "" THEN <<StringLiteral(t_a)>>
                ELSE <<StringLiteral(t_a), TemplateArgNode(body.arg)>>
    IN Program(<<FunctionDeclaration(
                     Identifier(n_reg),
                     <<Identifier(k_type), Identifier(p_label)>>,
                     BlockStatement(
                         <<RegisterStatement(<<Identifier(k_type), options>>)>>)),
                 ExpressionStatement(CallExpression(Identifier(n_reg), args,
                                                    <<"r", "(", ")">>))>>)

TemplateDoc(body) ==
    <<ModuleBlock(m_custom,
         <<ScriptElement(Str(s_text_javascript), Undefined, Undefined,
                         Fragment(<<"j", "s">>, <<"j", "s">>, <<>>), TRUE,
                         TemplateProgram(body))>>)>>

EmbeddedLists ==
    UNION {[1..n -> EmbeddedKinds] : n \in 0..MaxEmbedded}

TemplateResponses ==
    {Response("ok", FALSE, [kind |-> "template", exprs |-> ks, arg |-> a]) :
        ks \in EmbeddedLists, a \in LabelArgKinds}

\* Documents for the order of search.  ScoreDoc: types in which the query ab
\* begins at the places 0, 1 and 2, and a type that is longer than the cap of
\* the score.  FilterDoc: records of two modules, with and without a
\* category, a label, help, a template and default fields.
Filler(n) == [i \in 1..n |-> "z"]
t_ab == <<"a", "b">>
LongType == t_ab \o Filler(ScoreScale + 10)
ScoreTypes ==
    <<LongType, <<"c">> \o t_ab, t_ab \o <<"c">>, t_ab \o <<"c", "d">>,
      <<"c", "c">> \o t_ab, t_ab \o <<"z">>>>
ScoreDoc ==
    <<ModuleBlock(m_custom,
         <<JsElement([i \in 1..Len(ScoreTypes) |->
              RegisterStatement(<<StringLiteral(ScoreTypes[i])>>)])>>)>>

FilterDoc ==
    <<ModuleBlock(m_custom,
         <<HelpElement(t_a, <<"H", "i">>),
           JsElement(<<RegisterStatement(<<StringLiteral(t_a),
                                           CategoryOptions(<<"X", "y">>)>>),
                       RegisterStatement(<<StringLiteral(t_b), AllOptions>>)>>)>>),
      ModuleBlock(m_core,
         <<TemplateElement(<<"c">>, <<"<", "i", ">">>),
           JsElement(<<RegisterStatement(<<StringLiteral(<<"c">>)>>),
                       RegisterStatement(<<StringLiteral(<<"d">>),
                                           CategoryOptions(t_x)>>)>>)>>)>>

SearchResponses ==
    {Response("ok", FALSE, [kind |-> k]) : k \in {"score", "filter"}}
FilterResponses == {Response("ok", FALSE, [kind |-> "filter"])}

DocOf(body) ==
    CASE body.kind = "A" -> DocA
      [] body.kind = "B" -> DocB
      [] body.kind = "direct" -> DirectDoc(body, TRUE)
      [] body.kind = "build" -> BuildDoc(body)
      [] body.kind = "many" -> ManyDoc(body.n)
      [] body.kind = "score" -> ScoreDoc
      [] body.kind = "wrapper" -> RegDoc(body)
      [] body.kind = "template" -> TemplateDoc(body)
      [] body.kind = "filter" -> FilterDoc
      [] OTHER -> <<>>

\* String(html) for what callNodeRed returns: the text of the body, or the
\* value of res.json() when the content type is application/json; as module
\* blocks.  "[object Object]" holds no module delimiter.
HtmlOf(resp) == IF resp.json THEN <<>> ELSE DocOf(resp.body)

NoSearch == [query |-> Undefined, customOnly |-> FALSE, module |-> Undefined,
             category |-> Undefined, limit |-> Undefined]

Request(op, force, customOnly, type, includeHtml, search) ==
    [op |-> op, force |-> force, customOnly |-> customOnly, type |-> type,
     includeHtml |-> includeHtml, search |-> search]

\* getNode(type) for the type names of the documents of one direct call
ParseRequests ==
    {Request("getNode", FALSE, FALSE, Str(TypeOfArg(k)), FALSE, NoSearch) :
        k \in StringLiteralArgs}

Requests ==
    {Request("refresh", FALSE, FALSE, Undefined, FALSE, NoSearch)}
    \cup {Request("getCatalog", f, FALSE, Undefined, FALSE, NoSearch) : f \in BOOLEAN}
    \cup {Request("list", FALSE, TRUE, Undefined, FALSE, NoSearch)}
    \cup {Request("catalog-get-node", FALSE, FALSE, Str(t_a), FALSE, NoSearch)}
    \cup {Request("search", FALSE, FALSE, Undefined, FALSE,
                  [NoSearch EXCEPT !.query = q]) : q \in {Str(<<"X">>)}}

\* the names getNode is asked for: a type, the type in another case, the
\* beginning and a part of the type options, no name, names that every
\* object inherits, and the text of undefined
GetNodeNames ==
    {Str(t_a), Str(<<"A">>), Str(<<"o", "p", "t">>), Str(<<"t", "i", "o", "n">>),
     Str(k_options), Str(<<>>), Undefined, Str(s_constructor), Str(s_toString),
     Str(s_undefined)}

\* queries that are blank, and one that is not
BlankQueries == {Undefined, Str(<<>>), Str(<<" ">>), Str(<<" ", "\t", "\n">>)}

ReadRequests ==
    {Request("refresh", FALSE, FALSE, Undefined, FALSE, NoSearch)}
    \cup {Request("list", FALSE, c, Undefined, FALSE, NoSearch) : c \in BOOLEAN}
    \cup {Request("getNode", FALSE, FALSE, n, FALSE, NoSearch) : n \in GetNodeNames}
    \cup {Request("search", FALSE, FALSE, Undefined, FALSE,
                  [NoSearch EXCEPT !.query = q]) : q \in BlankQueries \cup {Str(t_a)}}

\* the settings the constructor reads
\* the limits of a search: none, a number in the range, at its ends, beyond
\* them, and values that are not finite numbers
Limits ==
    {Undefined, Null, NaN, Str(<<"7">>), Num(-1), Num(0), Num(1), Num(2), Num(3),
     Num(DefaultLimit), Num(DefaultLimit + 1), Num(MaxLimit), Num(MaxLimit + 1),
     Num(500)}

LimitRequests ==
    {Request("refresh", FALSE, FALSE, Undefined, FALSE, NoSearch)}
    \cup {Request("search", FALSE, FALSE, Undefined, FALSE,
                  [NoSearch EXCEPT !.query = Str(t_a), !.limit = l]) : l \in Limits}

\* the searches of the order and the filters
Queries ==
    {Str(t_a), Str(t_ab), Str(<<" ", "H", "I", " ">>), Str(t_x), Str(<<"n", "a", "m", "e">>),
     Str(<<"i">>), Str(<<"#", "f">>), Str(<<"n", "/", "I">>)}
ModuleFilters == {Undefined, Str(<<"M">>), Str(<<"N", "/", "I">>), Str(<<"z", "z">>)}
CategoryFilters == {Undefined, Str(<<"X">>), Str(t_y)}

SearchRequests ==
    {Request("refresh", FALSE, FALSE, Undefined, FALSE, NoSearch)}
    \cup {Request("search", FALSE, FALSE, Undefined, FALSE,
                  [query |-> q, customOnly |-> c, module |-> m, category |-> cat,
                   limit |-> Undefined]) :
             q \in Queries, c \in BOOLEAN, m \in ModuleFilters,
             cat \in CategoryFilters}

TtlEnvs == {Undefined, Str(<<"0">>)}
AllowEnv == Str(<<"m">>)

MaxCalls == 2
MaxSerialCalls == 3
MaxTicks == 1
MaxBuilds == 2
MaxReads == 2
StartTime == 100000

-----------------------------------------------------------------------------
(* The catalog cache as a state machine.  A call runs in steps; what lies   *)
(* between two awaits is one step.                                          *)

VARIABLES
    ttlEnv,         \* env.NODE_MCP_CATALOG_TTL_MS
    ttlMs,          \* this._ttlMs
    customModules,  \* this._customModules
    verbose,        \* this._verbose
    clock,          \* Date.now()
    ticks,          \* how often the clock has advanced
    heap,           \* the cache objects allocated so far
    cache,          \* this._cache, an index of heap
    g,              \* the properties builds have left on Object.prototype
    calls,          \* the calls made so far, with their position
    fetches,        \* the number of fetches issued
    log             \* the publications so far, in the order they happened

vars == <<ttlEnv, ttlMs, customModules, verbose, clock, ticks, heap, cache, g,
          calls, fetches, log>>

config == <<ttlEnv, ttlMs, customModules, verbose>>

Init ==
    /\ ttlEnv \in TtlEnvs
    /\ ttlMs = TtlOf(ttlEnv)
    /\ customModules = CustomModulesOf(AllowEnv)
    /\ verbose = VerboseOf(Bool(FALSE), Undefined)
    /\ clock = StartTime
    /\ ticks = 0
    /\ heap = <<InitialCache>>
    /\ cache = 1
    /\ g = CleanGlobals
    /\ calls = <<>>
    /\ fetches = 0
    /\ log = <<>>

\* The frame of a call: its arguments a, its position pc, the cache object c
\* that getCatalog returned to it, its result; and for the record whether it
\* issued a fetch, whether it began within the threshold of the timestamp of
\* the snapshot that was current then, and whether that snapshot was empty.
Frame(a, pc, c, result, fetched) ==
    [a |-> a, pc |-> pc, c |-> c, result |-> result, fetched |-> fetched,
     within |-> clock - heap[cache].ts <= ttlMs,
     empty |-> Len(heap[cache].nodes) = 0]

NoResult == [t |-> "pending"]
Failed == [t |-> "error"]
Ref(r) == [t |-> "ref", v |-> r]

\* A refresh that is skipped while another call's fetch is in flight: the
\* call returns this._cache as it is.
BeginDeduplicated(a) ==
    /\ LET blank == a.op = "search" /\ QueryOf(a.search.query) = <<>>
           busy == \E p \in 1..Len(calls) : calls[p].pc = "fetch"
           fetch == \/ a.op = "refresh"
                    \/ /\ ~blank
                       /\ NeedsRefresh(a.force, ttlMs, clock, heap[cache])
       IN /\ calls' = Append(calls,
                 IF blank THEN Frame(a, "done", 0, Arr(<<>>), FALSE)
                 ELSE IF fetch /\ ~busy THEN Frame(a, "fetch", 0, NoResult, TRUE)
                 ELSE IF a.op \in {"getCatalog", "refresh"}
                      THEN Frame(a, "done", cache, Ref(cache), FALSE)
                 ELSE Frame(a, "read", cache, NoResult, FALSE))
          /\ fetches' = IF fetch /\ ~blank /\ ~busy THEN fetches + 1 ELSE fetches
    /\ UNCHANGED <<config, clock, ticks, heap, cache, g, log>>

\* A search that asks getCatalog for the snapshot before it looks at its
\* query
BeginThroughCatalog(a) ==
    /\ LET fetch == \/ a.op = "refresh"
                    \/ NeedsRefresh(a.force, ttlMs, clock, heap[cache])
       IN /\ calls' = Append(calls,
                 IF fetch THEN Frame(a, "fetch", 0, NoResult, TRUE)
                 ELSE IF a.op = "getCatalog"
                      THEN Frame(a, "done", cache, Ref(cache), FALSE)
                 ELSE Frame(a, "read", cache, NoResult, FALSE))
          /\ fetches' = IF fetch THEN fetches + 1 ELSE fetches
    /\ UNCHANGED <<config, clock, ticks, heap, cache, g, log>>

\* A call begins and runs to its first await.  refresh() and a getCatalog()
\* that must refresh issue the fetch; a getCatalog() that need not returns
\* this._cache; search with a blank query returns [].
Begin(a) ==
    /\ LET blank == a.op = "search" /\ QueryOf(a.search.query) = <<>>
           fetch == \/ a.op = "refresh"
                    \/ /\ ~blank
                       /\ NeedsRefresh(a.force, ttlMs, clock, heap[cache])
       IN /\ calls' = Append(calls,
                 IF blank THEN Frame(a, "done", 0, Arr(<<>>), FALSE)
                 ELSE IF fetch THEN Frame(a, "fetch", 0, NoResult, TRUE)
                 ELSE IF a.op = "getCatalog"
                      THEN Frame(a, "done", cache, Ref(cache), FALSE)
                 ELSE Frame(a, "read", cache, NoResult, FALSE))
          /\ fetches' = IF fetch /\ ~blank THEN fetches + 1 ELSE fetches
    /\ UNCHANGED <<config, clock, ticks, heap, cache, g, log>>

Settled(p) == calls[p].pc \in {"done", "failed"}

\* callers that do not wait for one another
Start(a) == Len(calls) < MaxCalls /\ Begin(a)

\* a single caller, who awaits each call before making the next
StartAlone(a) ==
    /\ Len(calls) < MaxSerialCalls
    /\ \A p \in 1..Len(calls) : Settled(p)
    /\ Begin(a)

\* refresh() with a handler that resets the cache when the fetch fails
FetchFailsAndClears(p, resp) ==
    /\ calls[p].pc = "fetch"
    /\ resp.kind # "ok"
    /\ calls' = [calls EXCEPT ![p].pc = "failed", ![p].result = Failed]
    /\ heap' = Append(heap, InitialCache)
    /\ cache' = Len(heap) + 1
    /\ UNCHANGED <<config, clock, ticks, g, fetches, log>>

\* The fetch of call p fails: it rejects (a transport fault), or it answers
\* with a non-success status and callNodeRed throws once it has read the
\* body.  The error passes through every await above it; nothing catches it.
FetchFails(p, resp) ==
    /\ calls[p].pc = "fetch"
    /\ resp.kind # "ok"
    /\ calls' = [calls EXCEPT ![p].pc = "failed", ![p].result = Failed]
    /\ UNCHANGED <<config, clock, ticks, heap, cache, g, fetches, log>>

\* a publication that keeps the type mapping of the snapshot before
PublishKeepingIndex(h, c, snapshot) ==
    [heap |-> Append(h, [snapshot EXCEPT !.nodesByType = h[c].nodesByType]),
     cache |-> Len(h) + 1]

\* a publication into the current cache object, which adds the nodes to the
\* nodes it holds
PublishMerging(h, c, snapshot) ==
    [heap |-> [h EXCEPT ![c] = [snapshot EXCEPT !.nodes = h[c].nodes \o snapshot.nodes]],
     cache |-> c]

\* this._cache = { ts: now(), ... }: a new object, and this._cache refers to it
Publish(h, c, snapshot) == [heap |-> Append(h, snapshot), cache |-> Len(h) + 1]

\* The fetch of call p answers with a success status and callNodeRed has
\* read the body: refresh() parses it, marks the nodes and publishes.
RefreshPublishes(p, resp) ==
    /\ calls[p].pc = "fetch"
    /\ resp.kind = "ok"
    /\ \E parsed \in {parseNodesHtml(HtmlOf(resp), verbose, g)} :
       \E pub \in {Publish(heap, cache,
                           NewCache(parsed, customModules, clock, Null))} :
          /\ heap' = pub.heap
          /\ cache' = pub.cache
          /\ g' = parsed.g
          /\ log' = Append(log, [p |-> p, resp |-> resp, ts |-> clock, g |-> g,
                                 ref |-> pub.cache])
          /\ calls' = [calls EXCEPT
                ![p].pc = IF calls[p].a.op = "refresh" THEN "done" ELSE "gcret",
                ![p].c = pub.cache,
                ![p].result = IF calls[p].a.op = "refresh" THEN Ref(pub.cache) ELSE @]
    /\ UNCHANGED <<config, clock, ticks, fetches>>

\* getCatalog resumes after await this.refresh() and returns this._cache
GetCatalogReturns(p) ==
    /\ calls[p].pc = "gcret"
    /\ calls' = [calls EXCEPT
          ![p].pc = IF calls[p].a.op = "getCatalog" THEN "done" ELSE "read",
          ![p].c = cache,
          ![p].result = IF calls[p].a.op = "getCatalog" THEN Ref(cache) ELSE @]
    /\ UNCHANGED <<config, clock, ticks, heap, cache, g, fetches, log>>

\* list, getNode or search resumes after await this.getCatalog() with
\* c = heap[calls[p].c] and computes its result
Reads(p) ==
    /\ calls[p].pc = "read"
    /\ LET a == calls[p].a
           c == heap[calls[p].c]
       IN calls' = [calls EXCEPT
             ![p].pc = IF a.op = "catalog-get-node" THEN "strip" ELSE "done",
             ![p].result = CASE a.op = "list" -> Arr(ListOf(c, a.customOnly))
                             [] a.op = "search" ->
                                  Arr(SearchOf(g, c, a.search))
                             [] OTHER -> GetNodeOf(c, a.type)]
    /\ UNCHANGED <<config, clock, ticks, heap, cache, g, fetches, log>>

\* the handler of catalog-get-node resumes after await catalog.getNode(type)
Strips(p) ==
    /\ calls[p].pc = "strip"
    /\ LET r == getNodeTool(g, heap, calls[p].c, calls[p].result,
                            calls[p].a.includeHtml)
       IN /\ heap' = r.heap
          /\ calls' = [calls EXCEPT ![p].pc = "done", ![p].result = r.out]
    /\ UNCHANGED <<config, clock, ticks, cache, g, fetches, log>>

\* time passes: by a millisecond, by the threshold, or by just over it
Tick(d) ==
    /\ ticks < MaxTicks
    /\ d > 0
    /\ clock' = clock + d
    /\ ticks' = ticks + 1
    /\ UNCHANGED <<config, heap, cache, g, calls, fetches, log>>

Next ==
    \/ \E a \in Requests : Start(a)
    \/ \E p \in 1..Len(calls), resp \in Responses : FetchFails(p, resp)
    \/ \E p \in 1..Len(calls), resp \in Responses : RefreshPublishes(p, resp)
    \/ \E p \in 1..Len(calls) : GetCatalogReturns(p)
    \/ \E p \in 1..Len(calls) : Reads(p)
    \/ \E p \in 1..Len(calls) : Strips(p)
    \/ \E d \in {1, ttlMs, ttlMs + 1} : Tick(d)

Spec == Init /\ [][Next]_vars

\* One build: a getNode call on the new cache, answered with a document of
\* one direct call.
ParseStart(a) == calls = <<>> /\ Begin(a)

ParseNext ==
    \/ \E a \in ParseRequests : ParseStart(a)
    \/ \E p \in 1..Len(calls), resp \in ParseResponses : RefreshPublishes(p, resp)
    \/ \E p \in 1..Len(calls) : GetCatalogReturns(p)
    \/ \E p \in 1..Len(calls) : Reads(p)

ParseSpec == Init /\ [][ParseNext]_vars

SerialNext ==
    \/ \E a \in Requests : StartAlone(a)
    \/ \E p \in 1..Len(calls), resp \in Responses : FetchFails(p, resp)
    \/ \E p \in 1..Len(calls), resp \in Responses : RefreshPublishes(p, resp)
    \/ \E p \in 1..Len(calls) : GetCatalogReturns(p)
    \/ \E p \in 1..Len(calls) : Reads(p)
    \/ \E p \in 1..Len(calls) : Strips(p)
    \/ \E d \in {1, ttlMs, ttlMs + 1} : Tick(d)

SerialSpec == Init /\ [][SerialNext]_vars

\* Builds: a single caller refreshes the catalog MaxBuilds times; the first
\* refresh is answered with any document of BuildBodies, a later one with
\* the same document again or with one of SecondBodies.
RefreshRequest == Request("refresh", FALSE, FALSE, Undefined, FALSE, NoSearch)

BuildStart ==
    /\ Len(calls) < MaxBuilds
    /\ \A p \in 1..Len(calls) : Settled(p)
    /\ Begin(RefreshRequest)

BuildNext ==
    \/ BuildStart
    \/ \E p \in 1..Len(calls), resp \in BuildResponses :
          /\ IF log = <<>> THEN TRUE
             ELSE resp.body \in SecondBodies \/ resp = log[Len(log)].resp
          /\ RefreshPublishes(p, resp)

BuildSpec == Init /\ [][BuildNext]_vars

\* Reads: a single caller makes MaxReads calls of refresh, list, getNode and
\* search, each awaited, while time passes.
ReadStart(a) ==
    /\ Len(calls) < MaxReads
    /\ \A p \in 1..Len(calls) : Settled(p)
    /\ Begin(a)

ReadNext ==
    \/ \E a \in ReadRequests : ReadStart(a)
    \/ \E p \in 1..Len(calls), resp \in ReadResponses : RefreshPublishes(p, resp)
    \/ \E p \in 1..Len(calls) : GetCatalogReturns(p)
    \/ \E p \in 1..Len(calls) : Reads(p)
    \/ \E d \in {1, ttlMs, ttlMs + 1} : Tick(d)

ReadSpec == Init /\ [][ReadNext]_vars

\* One caller with the threshold not configured: refresh(), answered with a
\* document of many registrations, and then one search with a limit.
DefaultTtlInit == Init /\ ttlEnv = Undefined

StartOnSnapshot(a) ==
    /\ Len(calls) = Len(log)
    /\ (a.op = "refresh") = (calls = <<>>)
    /\ Begin(a)

LimitNext ==
    \/ \E a \in LimitRequests : StartOnSnapshot(a)
    \/ \E p \in 1..Len(calls), resp \in LimitResponses : RefreshPublishes(p, resp)
    \/ \E p \in 1..Len(calls) : Reads(p)

LimitSpec == DefaultTtlInit /\ [][LimitNext]_vars

\* The same caller: refresh(), answered with a document of records that
\* differ in what a search reads, and then one search.
SearchNext ==
    \/ \E a \in SearchRequests : StartOnSnapshot(a)
    \/ \E p \in 1..Len(calls), resp \in SearchResponses : RefreshPublishes(p, resp)
    \/ \E p \in 1..Len(calls) : Reads(p)

SearchSpec == DefaultTtlInit /\ [][SearchNext]_vars

\* One refresh(), answered with a document of one function and one call
\* of it.
RegStart ==
    /\ calls = <<>>
    /\ Begin(RefreshRequest)

RegNext ==
    \/ RegStart
    \/ \E p \in 1..Len(calls), resp \in RegResponses : RefreshPublishes(p, resp)

RegSpec == Init /\ [][RegNext]_vars

\* One refresh(), answered with a document of a wrapper with a template in
\* its options.
TemplateNext ==
    \/ RegStart
    \/ \E p \in 1..Len(calls), resp \in TemplateResponses : RefreshPublishes(p, resp)

TemplateSpec == DefaultTtlInit /\ [][TemplateNext]_vars

\* The threshold: the catalog is constructed with any of ConfiguredTtls in
\* NODE_MCP_CATALOG_TTL_MS, and a single caller calls getCatalog while
\* time passes.
ConfiguredTtls ==
    {Undefined, Str(<<>>), Str(<<"0">>), Str(<<"1">>), Str(<<"5", "0", "0">>),
     Str(<<"6", "0", "0", "0", "0">>), Str(<<"9", "0", "0", "0", "0">>),
     Str(<<"-", "1">>), Str(<<"-", "5", "0", "0">>), Str(<<"a", "b", "c">>),
     Str(<<"N", "a", "N">>), Str(<<"1", ".", "5">>), Str(<<"1", "2", "a", "b", "c">>)}

ConfiguredInit ==
    /\ ttlEnv \in ConfiguredTtls
    /\ ttlMs = TtlOf(ttlEnv)
    /\ customModules = CustomModulesOf(AllowEnv)
    /\ verbose = VerboseOf(Bool(FALSE), Undefined)
    /\ clock = StartTime
    /\ ticks = 0
    /\ heap = <<InitialCache>>
    /\ cache = 1
    /\ g = CleanGlobals
    /\ calls = <<>>
    /\ fetches = 0
    /\ log = <<>>

TtlNext ==
    \/ \E f \in BOOLEAN :
          StartAlone(Request("getCatalog", f, FALSE, Undefined, FALSE, NoSearch))
    \/ \E p \in 1..Len(calls) : RefreshPublishes(p, Response("ok", FALSE, BodyA))
    \/ \E p \in 1..Len(calls) : GetCatalogReturns(p)
    \/ \E d \in {1, ttlMs, ttlMs + 1} : Tick(d)

TtlSpec == ConfiguredInit /\ [][TtlNext]_vars

\* Empty answers: a single caller makes MaxEmptyCalls calls within the
\* threshold; every fetch succeeds, with the document A, with a JSON body
\* or with a text without a module delimiter.
MaxEmptyCalls == 3

EmptyRequests ==
    {Request("refresh", FALSE, FALSE, Undefined, FALSE, NoSearch),
     Request("getCatalog", FALSE, FALSE, Undefined, FALSE, NoSearch),
     Request("list", FALSE, FALSE, Undefined, FALSE, NoSearch),
     Request("catalog-get-node", FALSE, FALSE, Str(t_a), FALSE, NoSearch)}
    \cup {Request("search", FALSE, FALSE, Undefined, FALSE,
                  [NoSearch EXCEPT !.query = q]) : q \in {Str(<<"X">>), Str(<<" ">>)}}

EmptyResponses ==
    {Response("ok", FALSE, BodyA), Response("ok", TRUE, NoBody),
     Response("ok", FALSE, NoBody)}

EmptyStart(a) ==
    /\ Len(calls) < MaxEmptyCalls
    /\ \A p \in 1..Len(calls) : Settled(p)
    /\ Begin(a)

EmptyNext ==
    \/ \E a \in EmptyRequests : EmptyStart(a)
    \/ \E p \in 1..Len(calls), resp \in EmptyResponses : RefreshPublishes(p, resp)
    \/ \E p \in 1..Len(calls) : GetCatalogReturns(p)
    \/ \E p \in 1..Len(calls) : Reads(p)
    \/ \E p \in 1..Len(calls) : Strips(p)

EmptySpec == DefaultTtlInit /\ [][EmptyNext]_vars

\* One refresh(), answered with a document of three fragments in one
\* module or in three.
AttrNext ==
    \/ RegStart
    \/ \E p \in 1..Len(calls), resp \in AttrResponses : RefreshPublishes(p, resp)

AttrSpec == DefaultTtlInit /\ [][AttrNext]_vars

\* and with the document FilterDoc alone
FilterNext ==
    \/ \E a \in SearchRequests : StartOnSnapshot(a)
    \/ \E p \in 1..Len(calls), resp \in FilterResponses : RefreshPublishes(p, resp)
    \/ \E p \in 1..Len(calls) : Reads(p)

FilterSpec == DefaultTtlInit /\ [][FilterNext]_vars

-----------------------------------------------------------------------------
(* Properties of the cache *)

Frames == 1..Len(calls)
ReadOps == {"list", "search", "catalog-get-node"}
NonForced(p) == calls[p].a.op # "refresh" /\ ~calls[p].a.force
Returned(p) == calls[p].pc \in {"gcret", "read", "strip", "done"}
PublicationsOf(p) == {i \in 1..Len(log) : log[i].p = p}

\* the snapshot that the publication e of the log built
Built(e) ==
    NewCache(parseNodesHtml(HtmlOf(e.resp), verbose, e.g), customModules, e.ts, Null)

\* the type mapping of s holds the records of its node list and no other
Indexed(s) ==
    /\ \A i \in 1..Len(s.nodes) :
          ObjGet(s.nodesByType, JsString(ObjGet(s.nodes[i], k_type))) = s.nodes[i]
    /\ \A v \in SeqToSet(ObjValues(s.nodesByType)) : v \in SeqToSet(s.nodes)

\* C1: a getCatalog({force}) call issues a fetch exactly when force is set,
\* or the current snapshot has no nodes, or the threshold is 0, or the age
\* of the snapshot is greater than the threshold, and the refresh it awaits
\* then replaces the cache object by a new one; in every other case it
\* issues no fetch and returns the current cache object, which it leaves as
\* it is.
C1_GetCatalogRefreshesIffDue ==
    [][/\ (Len(calls') = Len(calls) + 1 /\ calls'[Len(calls')].a.op = "getCatalog") =>
            LET n == Len(calls')
                c == heap[cache]
                due == \/ calls'[n].a.force
                       \/ Len(c.nodes) = 0
                       \/ ttlMs = 0
                       \/ clock - c.ts > ttlMs
            IN IF due
               THEN calls'[n].pc = "fetch" /\ fetches' = fetches + 1
               ELSE /\ calls'[n].pc = "done"
                    /\ fetches' = fetches
                    /\ calls'[n].result = Ref(cache)
                    /\ cache' = cache
                    /\ heap' = heap
       /\ \A p \in Frames :
            (calls[p].a.op = "getCatalog" /\ calls[p].pc = "fetch"
               /\ calls'[p].pc = "gcret") =>
                 /\ fetches' = fetches
                 /\ cache' = Len(heap) + 1
                 /\ Len(heap') = Len(heap) + 1
                 /\ heap'[cache'].ts = clock]_vars

\* a getCatalog() that refreshed, and a later one that returned the snapshot
\* of nodes it found
C1_Witness ==
    \E p, q \in Frames :
       /\ calls[p].a.op = "getCatalog" /\ calls[p].fetched /\ calls[p].pc = "done"
       /\ calls[q].a.op = "getCatalog" /\ ~calls[q].fetched /\ ~calls[q].a.force
       /\ calls[q].result = Ref(cache)
       /\ Len(heap[cache].nodes) > 0

\* C2: when the fetch of a refresh fails, whichever operation awaits the
\* refresh, the call ends with the error, and the cache object, the
\* snapshots and the publications are what they were.
C2_FailedRefreshLeavesSnapshot ==
    [][\A p \in Frames :
         /\ (calls[p].pc # "failed" /\ calls'[p].pc = "failed") =>
               /\ calls[p].pc = "fetch"
               /\ calls'[p].result = Failed
               /\ cache' = cache
               /\ heap' = heap
               /\ log' = log
         /\ calls[p].pc = "failed" =>
               calls'[p] = calls[p] /\ PublicationsOf(p) = {}]_vars

\* a read whose refresh failed, with the snapshot of nodes still in place
C2_Witness ==
    \E p \in Frames :
       /\ calls[p].a.op \in ReadOps
       /\ calls[p].pc = "failed"
       /\ log # <<>>
       /\ heap[cache] = Built(log[Len(log)])
       /\ Len(heap[cache].nodes) > 0

\* C3 (for a threshold other than 0): a read without force that one caller
\* begins after a refresh has failed, with a published snapshot of nodes in
\* the cache, succeeds, however long after the publication it begins.
C3_ReadsSucceedAfterFailedRefresh ==
    \A p, q \in Frames :
       (/\ p < q
        /\ calls[p].pc = "failed"
        /\ NonForced(q)
        /\ ttlMs # 0
        /\ ~calls[q].empty) => calls[q].pc # "failed"

\* C4: the current snapshot is the initial one, or what exactly one
\* publication built, whole: its timestamp, nodes, type mapping and warnings
\* are those of that build, and the call that built it has returned from its
\* fetch.
C4_PublicationIsAtomic ==
    /\ Indexed(heap[cache])
    /\ IF log = <<>> THEN cache = 1 /\ heap[cache] = InitialCache
       ELSE \E i \in 1..Len(log) :
               /\ log[i].ref = cache
               /\ heap[cache] = Built(log[i])
               /\ Returned(log[i].p)

\* a snapshot of nodes is current while a fetch is in flight
C4_Witness ==
    /\ \E p \in Frames : calls[p].pc = "fetch"
    /\ log # <<>>
    /\ Len(heap[cache].nodes) > 0

\* C5: every refresh() call, and every getCatalog() that finds the snapshot
\* due, issues a fetch of its own, whatever else is in flight; each call
\* whose fetch succeeded has published one snapshot of its own; and the
\* current snapshot is the one published last.
C5_RefreshNotDeduplicated ==
    /\ \A p \in Frames : calls[p].a.op = "refresh" => calls[p].fetched
    /\ \A p \in Frames :
          (NonForced(p) /\ (calls[p].empty \/ ~calls[p].within)
             /\ ~(calls[p].a.op = "search" /\ calls[p].c = 0 /\ calls[p].pc = "done"))
          => calls[p].fetched
    /\ fetches = Cardinality({p \in Frames : calls[p].fetched})
    /\ \A p \in Frames :
          Cardinality(PublicationsOf(p)) =
             IF calls[p].fetched /\ Returned(p) THEN 1 ELSE 0
    /\ \A i, j \in 1..Len(log) : log[i].ref = log[j].ref => i = j
    /\ log # <<>> => cache = log[Len(log)].ref

\* two refresh() calls overlapped, and the one that began first finished last
C5_Witness ==
    /\ Len(calls) = 2
    /\ \A p \in Frames : calls[p].a.op = "refresh" /\ calls[p].pc = "done"
    /\ Len(log) = 2
    /\ log[1].p = 2
    /\ log[2].p = 1
    /\ cache = calls[1].result.v

\* what a read with the arguments a returns from the snapshot s
ExpectedOf(a, s) ==
    CASE a.op = "list" -> Arr(ListOf(s, a.customOnly))
      [] a.op = "search" -> Arr(SearchOf(g, s, a.search))
      [] OTHER -> getNodeTool(g, <<s>>, 1, GetNodeOf(s, a.type), a.includeHtml).out

\* C6: the result of a list, getNode or search call is what the operation
\* yields on one published snapshot, the one getCatalog returned to it.
C6_ReadsUseOneSnapshot ==
    \A p \in Frames :
       (calls[p].a.op \in ReadOps /\ calls[p].c # 0
          /\ calls[p].pc \in {"strip", "done"}) =>
          \E i \in 1..Len(log) :
             /\ log[i].ref = calls[p].c
             /\ calls[p].result =
                  IF calls[p].pc = "strip"
                  THEN GetNodeOf(Built(log[i]), calls[p].a.type)
                  ELSE ExpectedOf(calls[p].a, Built(log[i]))

\* a read whose own refresh published first, then another call published,
\* and the read returned records of the second snapshot
C6_Witness ==
    \E p \in Frames :
       /\ calls[p].a.op \in ReadOps
       /\ calls[p].pc = "done"
       /\ Len(log) = 2
       /\ log[1].p = p
       /\ calls[p].c = log[2].ref
       /\ calls[p].result \notin {Null, Arr(<<>>)}

\* a getCatalog() without force
PlainGetCatalog(p) == calls[p].a.op = "getCatalog" /\ ~calls[p].a.force

\* the timestamp of the snapshot that publication i replaced (one caller)
ReplacedTs(i) == IF i = 1 THEN InitialCache.ts ELSE log[i - 1].ts

\* a getCatalog() that begins after the threshold has elapsed issues one
\* fetch, and the snapshot it returns is the one its refresh published, with
\* a timestamp greater than that of the snapshot it replaced
OneRefreshAfterThreshold ==
    /\ fetches = Cardinality({p \in Frames : calls[p].fetched})
    /\ \A q \in Frames :
          (PlainGetCatalog(q) /\ ~calls[q].within) =>
             /\ calls[q].fetched
             /\ calls[q].pc = "done" =>
                   \E i \in 1..Len(log) :
                      /\ PublicationsOf(q) = {i}
                      /\ calls[q].result = Ref(log[i].ref)
                      /\ heap[log[i].ref].ts > ReplacedTs(i)

\* C7 as stated: for one caller, two getCatalog() calls within the threshold
\* of the snapshot's timestamp return the same timestamp, and one after the
\* threshold issues one refresh, whose snapshot has a greater timestamp.
C7_SameTimestampWithinThreshold ==
    /\ \A p \in Frames :
          (/\ p + 1 \in Frames
           /\ PlainGetCatalog(p) /\ calls[p].pc = "done"
           /\ PlainGetCatalog(p + 1) /\ calls[p + 1].pc = "done"
           /\ calls[p + 1].within) =>
             heap[calls[p + 1].result.v].ts = heap[calls[p].result.v].ts
    /\ OneRefreshAfterThreshold

\* C7, amended: for one caller, when the snapshot a getCatalog() returned
\* holds at least one node and the threshold is not 0, the next getCatalog()
\* within the threshold of its timestamp issues no fetch and returns the same
\* snapshot, so the same timestamp; and one after the threshold issues one
\* refresh, whose snapshot has a greater timestamp.
C7_SameSnapshotWithinThreshold ==
    /\ \A p \in Frames :
          (/\ p + 1 \in Frames
           /\ PlainGetCatalog(p) /\ calls[p].pc = "done"
           /\ PlainGetCatalog(p + 1)
           /\ calls[p + 1].within
           /\ ~calls[p + 1].empty
           /\ ttlMs # 0) =>
             /\ ~calls[p + 1].fetched
             /\ calls[p + 1].pc = "done"
             /\ calls[p + 1].result = calls[p].result
    /\ OneRefreshAfterThreshold

\* three getCatalog() calls of one caller: the second within the threshold
\* returned the snapshot of the first, the third after it a later one
C7_Witness ==
    /\ Len(calls) = 3
    /\ \A p \in Frames : PlainGetCatalog(p) /\ calls[p].pc = "done"
    /\ ttlMs # 0
    /\ ~calls[2].fetched
    /\ calls[2].within /\ ~calls[2].empty
    /\ calls[2].result = calls[1].result
    /\ calls[3].fetched /\ ~calls[3].within
    /\ heap[calls[3].result.v].ts > heap[calls[1].result.v].ts

\* C8: no step changes a cache object that exists: publication adds an
\* object, and the reads and the handler of catalog-get-node work on copies.
C8_SnapshotsNeverModified ==
    [][\A r \in 1..Len(heap) : r <= Len(heap') /\ heap'[r] = heap[r]]_vars

\* catalog-get-node returned a record without the HTML of its help, search
\* returned a match, and the record of the snapshot still holds the HTML
C8_Witness ==
    \E p, q \in Frames :
       /\ calls[p].a.op = "catalog-get-node" /\ calls[p].pc = "done"
       /\ calls[p].result # Null
       /\ ObjGet(ObjGet(calls[p].result, k_help), k_html) = Undefined
       /\ ObjGet(ObjGet(GetNodeOf(heap[calls[p].c], calls[p].a.type), k_help), k_html)
             # Undefined
       /\ calls[q].a.op = "search" /\ calls[q].pc = "done"
       /\ calls[q].result # Arr(<<>>)

-----------------------------------------------------------------------------
(* Properties of the build of one direct call *)

\* the document that was published, when it is one of a direct call
DirectPublished == Len(log) = 1 /\ log[1].resp.body.kind = "direct"
TheBody == log[1].resp.body

\* the fields an object-literal options argument gives, with their values
GivenBy(k) ==
    IF k = "{category}" THEN << <<k_category, Str(t_x)>> >>
    ELSE << <<k_category, Str(t_x)>>, <<k_paletteLabel, Str(t_p)>>,
            <<k_color, Str(t_c)>>, <<k_icon, Str(t_i)>>, <<k_align, Str(t_r)>>,
            <<k_inputs, Num(1)>>, <<k_outputs, Num(2)>>,
            <<k_outputLabels, Arr(<<Str(t_o)>>)>>,
            <<k_defaults,
              Obj(<< <<k_name, Obj(<< <<k_value, Str(<<>>)>> >>)>> >>)>> >>

\* C9 (for a type name T of at least one character): after the refresh of a
\* document in which T is registered by one direct call with a string-literal
\* type and object-literal options, and by nothing else, getNode(T) returns a
\* record whose category, paletteLabel, color, icon, align, inputs, outputs,
\* outputLabels and defaults are the values the options give.
C9_DirectCallFieldsReachGetNode ==
    \A p \in Frames :
       (/\ calls[p].a.op = "getNode" /\ calls[p].pc = "done"
        /\ DirectPublished
        /\ TheBody.typeArg \in StringLiteralArgs \ {"''"}
        /\ TheBody.optionsArg \in ObjectLiteralArgs
        /\ calls[p].a.type = Str(TypeOfArg(TheBody.typeArg))) =>
          /\ calls[p].result.t = "object"
          /\ \A i \in 1..Len(GivenBy(TheBody.optionsArg)) :
                ObjGet(calls[p].result, GivenBy(TheBody.optionsArg)[i][1])
                   = GivenBy(TheBody.optionsArg)[i][2]

\* the snapshot of the publication e had its document not held the call
BuiltWithoutCall(e) ==
    NewCache(parseNodesHtml(DirectDoc(e.resp.body, FALSE), verbose, e.g),
             customModules, e.ts, Null)

\* the registrations the finder reports for the script of the call
FoundIn(body) ==
    parseEditorJsForRegisterTypes(
        JsElement(<<RegisterStatement(DirectArgs(body))>>)).found

-----------------------------------------------------------------------------
(* Properties of the builds *)

Builds == 1..Len(log)

\* a === b for two values that are no objects, and the same properties with
\* the same values, in the same order, for two that are
RECURSIVE Same(_, _)
Same(a, b) ==
    IF a.t # b.t THEN FALSE
    ELSE CASE a.t = "object" ->
                 /\ Len(a.v) = Len(b.v)
                 /\ \A i \in 1..Len(a.v) :
                       a.v[i][1] = b.v[i][1] /\ Same(a.v[i][2], b.v[i][2])
           [] a.t = "array" ->
                 /\ Len(a.v) = Len(b.v)
                 /\ \A i \in 1..Len(a.v) : Same(a.v[i], b.v[i])
           [] a.t = "builtin" -> a.name = b.name
           [] a.t \in {"string", "number", "boolean"} -> a.v = b.v
           [] OTHER -> TRUE

\* two snapshots hold the same list of records, the same type mapping and
\* the same warnings
SameCatalog(s1, s2) ==
    /\ Same(Arr(s1.nodes), Arr(s2.nodes))
    /\ Same(s1.nodesByType, s2.nodesByType)
    /\ s1.warnings = s2.warnings

\* the items of the document that build e was answered with
ItemsOf(e) == log[e].resp.body.items

\* the snapshot that build e published
SnapshotOf(e) == heap[log[e].ref]

\* the records of a snapshot whose type field is the text T
RecordsOf(s, T) == {n \in 1..Len(s.nodes) : ObjGet(s.nodes[n], k_type) = Str(T)}

\* the value of a label argument of a wrapper call: the string, a reference
\* to the name x, the text of the call f(), or null for no argument
LabelValue(k) ==
    CASE k = "'g'" -> Str(t_g)
      [] k = "x" -> Obj(<< <<k_kind, Str(k_ref)>>, <<k_name, Str(t_x)>> >>)
      [] k = "f()" -> Obj(<< <<k_kind, Str(k_expr)>>,
                             <<k_source, Str(<<"f", "(", ")">>)>> >>)
      [] OTHER -> Null

\* the record r holds what the wrapper's literal { category: label,
\* paletteLabel: type } gives for the type T and the label argument k
HoldsWrapperOptions(r, T, k) ==
    /\ Same(ObjGet(r, k_options),
            Obj(<< <<k_category, LabelValue(k)>>, <<k_paletteLabel, Str(T)>> >>))
    /\ Same(ObjGet(r, k_category), LabelValue(k))
    /\ Same(ObjGet(r, k_paletteLabel), Str(T))

\* C11 (for a type argument of at least one character): a call of the
\* wrapper reg with a string-literal type argument T yields one record of
\* the type T, and its options are the wrapper's options literal with type
\* replaced by T and label by the value of the label argument of the call.
C11_WrapperCallYieldsRecord ==
    \A e \in Builds : \A i \in 1..Len(ItemsOf(e)) :
       LET item == ItemsOf(e)[i]
           T == TypeOfArg(item.type)
           s == SnapshotOf(e)
       IN (item.k = "wrap" /\ item.type \in StringLiteralArgs /\ T # <<>>) =>
             /\ Cardinality(RecordsOf(s, T)) = 1
             /\ \A n \in RecordsOf(s, T) : HoldsWrapperOptions(s.nodes[n], T, item.arg)


\* the value of each option the expressions of ExprOptions are evaluated to
ExprPlaceholder(src) == Obj(<< <<k_kind, Str(k_expr)>>, <<k_source, Str(src)>> >>)

ExprGiven ==
    << <<k_category, ExprPlaceholder(<<"f", "(", ")">>)>>,
       <<k_color, ExprPlaceholder(<<"a", ".", "b">>)>>,
       <<k_icon, ExprPlaceholder(<<"1", "+", "2">>)>>,
       <<k_align, ExprPlaceholder(<<"a", "|", "|", "b">>)>>,
       <<k_inputs, ExprPlaceholder(<<"c", "?", "1", ":", "2">>)>>,
       <<k_outputs, ExprPlaceholder(<<"n", "e", "w", " ", "F", "(", ")">>)>>,
       <<k_outputLabels,
         Arr(<<ExprPlaceholder(<<"f", "(", ")">>),
               Arr(<<ExprPlaceholder(<<"a", ".", "b">>)>>)>>)>>,
       <<k_defaults,
         Obj(<< <<k_name,
                  Obj(<< <<k_value,
                           ExprPlaceholder(<<"n", "e", "w", " ", "F", "(", ")">>)>> >>)>> >>)>> >>

\* the type a registration item registers, <<>> when it registers none
RegisteredBy(item) ==
    IF item.k \in {"reg", "wrap"} /\ item.type \in StringLiteralArgs \cup NameArgs
    THEN TypeOfArg(item.type) ELSE <<>>

\* the options a registration item writes down, as <<field, value>> pairs
WrittenBy(item) ==
    CASE item.k = "wrap" ->
            << <<k_category, LabelValue(item.arg)>>,
               <<k_paletteLabel, Str(TypeOfArg(item.type))>> >>
      [] item.k = "reg" /\ item.arg \in {"{category}", "{all}"} -> GivenBy(item.arg)
      [] item.k = "reg" /\ item.arg = "{category:y}" -> << <<k_category, Str(t_y)>> >>
      [] item.k = "reg" /\ item.arg = "{category:''}" -> << <<k_category, Str(<<>>)>> >>
      [] item.k = "reg" /\ item.arg = "{category:null}" -> << <<k_category, Null>> >>
      [] item.k = "reg" /\ item.arg = "{color}" -> << <<k_color, Str(t_c)>> >>
      [] item.k = "reg" /\ item.arg = "{exprs}" -> ExprGiven
      [] OTHER -> <<>>

\* the registrations of the type T among the items that give the field f an
\* explicit value: one that is neither null nor undefined
ExplicitFor(items, T, f) ==
    {i \in 1..Len(items) :
        /\ RegisteredBy(items[i]) = T
        /\ \E n \in 1..Len(WrittenBy(items[i])) :
              /\ WrittenBy(items[i])[n][1] = f
              /\ ~IsNullish(WrittenBy(items[i])[n][2])}

Max(S) == CHOOSE x \in S : \A y \in S : y <= x

\* the value the latest of them gives, null when there is none
LatestExplicit(items, T, f) ==
    IF ExplicitFor(items, T, f) = {} THEN Null
    ELSE LET w == WrittenBy(items[Max(ExplicitFor(items, T, f))])
         IN w[CHOOSE n \in 1..Len(w) : w[n][1] = f][2]

\* C12: in the result of a build, every structural field of the record of a
\* type that the document registers holds the value of the latest
\* registration of the type, in document order, that gives the field a value
\* other than null, and null if no registration of the type gives one.
C12_LatestExplicitValueWins ==
    \A e \in Builds : \A i \in 1..Len(ItemsOf(e)) :
       LET T == RegisteredBy(ItemsOf(e)[i])
           s == SnapshotOf(e)
       IN T # <<>> =>
             \A n \in RecordsOf(s, T) : \A k \in 1..Len(StructuralFields) :
                Same(ObjGet(s.nodes[n], StructuralFields[k]),
                     LatestExplicit(ItemsOf(e), T, StructuralFields[k]))

\* three registrations of the type a, with the category x, with the category
\* y and with the color #f: the record holds y and #f
C12_Witness ==
    \E e \in Builds :
       /\ ItemsOf(e) = <<Item("reg", "'a'", "{category}", ""),
                         Item("reg", "'a'", "{category:y}", ""),
                         Item("reg", "'a'", "{color}", "")>>
       /\ \E n \in RecordsOf(SnapshotOf(e), t_a) :
             /\ ObjGet(SnapshotOf(e).nodes[n], k_category) = Str(t_y)
             /\ ObjGet(SnapshotOf(e).nodes[n], k_color) = Str(t_c)

RecordFields ==
    StructuralFields \o <<k_options, k_optionsSource, k_help, k_template,
                          k_templateFields>>

\* the name an item updates the record of: the type it registers, or the
\* name of its help or template fragment
UpdatedBy(item) ==
    IF item.k \in {"help", "template"} THEN TypeOfArg(item.type)
    ELSE RegisteredBy(item)

\* the order in which a build makes the updates of a document: module by
\* module, and in a module the help fragments, then the template fragments,
\* then the registrations
UpdatesOf(body) ==
    IF body.split THEN body.items
    ELSE SelectSeq(body.items, LAMBDA i : i.k = "help")
         \o SelectSeq(body.items, LAMBDA i : i.k = "template")
         \o SelectSeq(body.items, LAMBDA i : i.k \notin {"help", "template"})

\* no value, or an empty one: an empty string, an empty object, an empty
\* help or template fragment, the fields of an empty template
IsEmptyValue(v) ==
    CASE v.t \in {"undefined", "null"} -> TRUE
      [] v.t = "string" -> v.v = <<>>
      [] v.t = "object" ->
            \/ v.v = <<>>
            \/ ObjHas(v, k_html) /\ ObjGet(v, k_html) = Str(<<>>)
            \/ /\ ObjHas(v, k_all)
               /\ v = extractTemplateFields(Fragment(<<>>, <<>>, <<>>))
      [] OTHER -> FALSE

\* the snapshot of a document that holds the item alone
Alone(item) ==
    NewCache(parseNodesHtml(BuildDoc(BuildBody(<<item>>, FALSE)), FALSE, CleanGlobals),
             customModules, 0, Null)

\* the snapshots of the updates us, each alone
AloneAll(us) == [i \in 1..Len(us) |-> Alone(us[i])]

\* the value an item gives the field f of the record of the type T, where a
\* is the snapshot of the item alone
SuppliedBy(a, item, T, f) ==
    IF UpdatedBy(item) # T \/ RecordsOf(a, T) = {} THEN Undefined
    ELSE ObjGet(a.nodes[CHOOSE n \in RecordsOf(a, T) : TRUE], f)

\* the updates of the type T that supply a value for f that is not empty
Supplying(us, as, T, f) ==
    {i \in 1..Len(us) : ~IsEmptyValue(SuppliedBy(as[i], us[i], T, f))}

\* C13: a field of a record for which some update of the document supplied
\* a value that is not empty holds the value of the latest such update: the
\* updates after it, which supply no value or an empty one, leave it alone.
C13_EmptyNeverClears ==
    \A e \in Builds :
       LET us == UpdatesOf(log[e].resp.body)
           as == AloneAll(us)
           s == SnapshotOf(e)
       IN \A T \in {UpdatedBy(us[i]) : i \in 1..Len(us)} :
             \A n \in RecordsOf(s, T) : \A k \in 1..Len(RecordFields) :
                LET f == RecordFields[k]
                    last == Max(Supplying(us, as, T, f))
                IN Supplying(us, as, T, f) # {} =>
                      Same(ObjGet(s.nodes[n], f), SuppliedBy(as[last], us[last], T, f))

\* the module of item i of a document
ModuleOfItem(body, i) == IF body.split THEN <<m_custom, m_core, m_other>>[i] ELSE m_custom

\* the scripts of a document that do not parse
BrokenIn(body) == {i \in 1..Len(body.items) : body.items[i].k = "broken"}

IsBroken(el) ==
    el.helpName = Undefined /\ el.templateName = Undefined /\ ~el.parses

\* the document without the scripts that do not parse
WithoutBroken(doc) ==
    [b \in 1..Len(doc) |->
        ModuleBlock(doc[b].name, SelectSeq(doc[b].elems, LAMBDA el : ~IsBroken(el)))]

\* C14: a build of a document with a script that does not parse publishes a
\* snapshot; its warnings are one warning for the script, module:reason, and
\* its records are those of a build of the document without the script, so
\* the script contributes no registration, and the help and the template of
\* its module and every other script and module count as they do without it.
C14_BrokenScriptOnlyWarns ==
    \A e \in Builds :
       LET body == log[e].resp.body
           s == SnapshotOf(e)
           without == NewCache(parseNodesHtml(WithoutBroken(BuildDoc(body)), verbose,
                                              log[e].g),
                               customModules, log[e].ts, Null)
       IN BrokenIn(body) # {} =>
             /\ calls[log[e].p].pc = "done"
             /\ s.warnings = without.warnings
                              \o <<ModuleOfItem(body, Max(BrokenIn(body)))
                                    \o <<":">> \o s_acorn_parse_failed>>
             /\ Len(s.warnings) = 1
             /\ Same(Arr(s.nodes), Arr(without.nodes))
             /\ Same(s.nodesByType, without.nodesByType)

\* a build of a help fragment for a, a script that does not parse and a
\* registration of B in one module: one warning, and the records a with its
\* help and B with its color
C14_Witness ==
    \E e \in Builds :
       /\ ItemsOf(e) = <<Item("help", "'a'", "T", ""), BrokenItem,
                         Item("reg", "'B'", "{color}", "")>>
       /\ ~log[e].resp.body.split
       /\ Len(SnapshotOf(e).warnings) = 1
       /\ Len(SnapshotOf(e).nodes) = 2
       /\ \E n \in RecordsOf(SnapshotOf(e), t_a) :
             ObjGet(ObjGet(SnapshotOf(e).nodes[n], k_help), k_text) = Str(<<"H", "i">>)
       /\ \E n \in RecordsOf(SnapshotOf(e), <<"B">>) :
             ObjGet(SnapshotOf(e).nodes[n], k_color) = Str(t_c)

\* C15: the build of a registration whose option values are a call, a member
\* access, a binary, a logical and a conditional expression and a
\* constructor call, as values of the options and inside an array in an
\* array and an object in an object, is published, and the options of the
\* record hold for each of them the placeholder of kind expr with the text
\* of the expression, as do the structural fields of the record; the same
\* holds for a call as an argument of a wrapper call.
C15_ExpressionsBecomePlaceholders ==
    \A e \in Builds : \A i \in 1..Len(ItemsOf(e)) :
       LET item == ItemsOf(e)[i]
           s == SnapshotOf(e)
       IN /\ (item.k = "reg" /\ item.arg = "{exprs}") =>
                /\ calls[log[e].p].pc = "done"
                /\ RecordsOf(s, RegisteredBy(item)) # {}
                /\ \A n \in RecordsOf(s, RegisteredBy(item)) :
                      /\ Same(ObjGet(s.nodes[n], k_options), Obj(ExprGiven))
                      /\ \A k \in 1..Len(ExprGiven) :
                            Same(ObjGet(s.nodes[n], ExprGiven[k][1]), ExprGiven[k][2])
          /\ (item.k = "wrap" /\ item.arg = "f()" /\ item.type = "'a'") =>
                /\ calls[log[e].p].pc = "done"
                /\ RecordsOf(s, t_a) # {}
                /\ \A n \in RecordsOf(s, t_a) :
                      Same(ObjGet(s.nodes[n], k_category),
                           ExprPlaceholder(<<"f", "(", ")">>))

\* the build of the registration with the expressions was published, and the
\* record holds a placeholder for new F() inside defaults.name
C15_Witness ==
    \E e \in Builds :
       /\ ItemsOf(e) = <<Item("reg", "'a'", "{exprs}", "")>>
       /\ \E n \in RecordsOf(SnapshotOf(e), t_a) :
             ObjGet(ObjGet(ObjGet(ObjGet(SnapshotOf(e).nodes[n], k_options),
                                  k_defaults), k_name), k_value)
                = ExprPlaceholder(<<"n", "e", "w", " ", "F", "(", ")">>)

\* what the build e yields in a process that has built nothing before
FreshBuild(e) ==
    NewCache(parseNodesHtml(HtmlOf(log[e].resp), verbose, CleanGlobals),
             customModules, log[e].ts, Null)

\* C16: two builds of the same document yield the same list, the same
\* records and the same warnings, and every build yields what it yields in a
\* process that has built nothing before.
C16_BuildsAreIndependent ==
    /\ \A e1, e2 \in Builds :
          log[e1].resp = log[e2].resp => SameCatalog(SnapshotOf(e1), SnapshotOf(e2))
    /\ \A e \in Builds : SameCatalog(SnapshotOf(e), FreshBuild(e))

\* the characters of the type names, in the order of their code units
CodeUnitOrder == Digits \o UpperCase \o <<"_">> \o LowerCase

CodeUnit(c) == CHOOSE i \in 1..Len(CodeUnitOrder) : CodeUnitOrder[i] = c

\* a < b for two strings: the lexicographic order of their code units
LexLess(a, b) ==
    CompareWeights([i \in 1..Len(a) |-> CodeUnit(a[i])],
                   [i \in 1..Len(b) |-> CodeUnit(b[i])]) < 0

\* the list is in strictly ascending order of less, so no two of its records
\* share a type; the mapping holds the records of the list and no other,
\* each under the key that is its type field
OneRecordPerType(gl, nodes, index, less(_, _)) ==
    /\ \A i \in 1..(Len(nodes) - 1) :
          less(TypeText(gl, nodes[i]), TypeText(gl, nodes[i + 1]))
    /\ \A k \in 1..Len(index.v) :
          /\ Same(PropGet(gl, index.v[k][2], k_type), Str(index.v[k][1]))
          /\ \E i \in 1..Len(nodes) : Same(nodes[i], index.v[k][2])
    /\ \A i \in 1..Len(nodes) :
          \E k \in 1..Len(index.v) : Same(nodes[i], index.v[k][2])

\* what parseNodesHtml returned to the refresh of build e
BuildResult(e) == parseNodesHtml(HtmlOf(log[e].resp), verbose, log[e].g)

\* C17: in the result of every build and in every published snapshot the
\* node list is in strictly ascending lexicographic order of the type, and
\* the type mapping holds exactly the records of the list, each under the
\* key that is its type field.
C17_OneRecordPerType ==
    \A e \in Builds :
       /\ OneRecordPerType(BuildResult(e).g, BuildResult(e).nodes,
                           BuildResult(e).nodesByType, LexLess)
       /\ OneRecordPerType(BuildResult(e).g, SnapshotOf(e).nodes,
                           SnapshotOf(e).nodesByType, LexLess)

-----------------------------------------------------------------------------
(* Properties of the reads *)

\* the text of a field of a record, "" when the field is null or absent
FieldText(n, f) == IF Truthy(ObjGet(n, f)) THEN JsString(ObjGet(n, f)) ELSE <<>>

\* the package of the record is an entry of the allowlist, or the name of
\* its module begins with one
Allowed(n) ==
    \/ FieldText(n, k_modulePackage) \in customModules
    \/ \E m \in customModules : StartsWith(FieldText(n, k_module), m)

\* the entry is the entry of the record n
EntryOf(entry, n) ==
    /\ Same(ObjGet(entry, k_type), ObjGet(n, k_type))
    /\ Same(ObjGet(entry, k_module), OrNull(ObjGet(n, k_module)))
    /\ Same(ObjGet(entry, k_modulePackage), OrNull(ObjGet(n, k_modulePackage)))
    /\ Same(ObjGet(entry, k_category), OrNull(ObjGet(n, k_category)))

\* C18: list({customOnly: true}) returns, in the order of the snapshot, one
\* entry for each record whose package is an entry of the allowlist or whose
\* module name begins with one, and each entry has isCustom = true;
\* list({customOnly: false}) returns one entry for every record.
C18_ListFiltersByAllowlist ==
    \A p \in Frames :
       (calls[p].a.op = "list" /\ calls[p].pc = "done") =>
          LET nodes == heap[calls[p].c].nodes
              wanted == IF calls[p].a.customOnly THEN SelectSeq(nodes, Allowed)
                        ELSE nodes
              got == calls[p].result.v
          IN /\ Len(got) = Len(wanted)
             /\ \A i \in 1..Len(got) :
                   /\ EntryOf(got[i], wanted[i])
                   /\ calls[p].a.customOnly => ObjGet(got[i], k_isCustom) = Bool(TRUE)

\* list({customOnly: true}) returned the records a and options of a snapshot
\* of three records; the package of options, mx, is no entry of the allowlist
C18_Witness ==
    \E p \in Frames :
       /\ calls[p].a.op = "list" /\ calls[p].a.customOnly /\ calls[p].pc = "done"
       /\ Len(heap[calls[p].c].nodes) = 3
       /\ Len(calls[p].result.v) = 2
       /\ ObjGet(calls[p].result.v[1], k_type) = Str(t_a)
       /\ ObjGet(calls[p].result.v[2], k_type) = Str(k_options)
       /\ ObjGet(calls[p].result.v[2], k_modulePackage) = Str(<<"m", "x">>)
       /\ <<"m", "x">> \notin customModules

\* the records of a snapshot whose type field is the string x
TypedExactly(s, x) ==
    {n \in 1..Len(s.nodes) : x.t = "string" /\ Same(ObjGet(s.nodes[n], k_type), x)}

\* C19: getNode(type) returns the record of the snapshot whose type field is
\* the argument, character for character, and null when the snapshot holds
\* no such record: for another case, a beginning or a part of a type, for no
\* argument or an empty one, and for a name that is no type of the snapshot.
C19_GetNodeIsExactLookup ==
    \A p \in Frames :
       (calls[p].a.op = "getNode" /\ calls[p].pc = "done") =>
          LET s == heap[calls[p].c]
              found == TypedExactly(s, calls[p].a.type)
          IN IF found = {} THEN calls[p].result = Null
             ELSE \E n \in found : Same(calls[p].result, s.nodes[n])

\* a query that is a string of no characters or of white space only
IsBlankQuery(query) ==
    /\ query.t = "string"
    /\ \A i \in 1..Len(query.v) : query.v[i] \in WhiteSpace

BlankSearch(a) == a.op = "search" /\ IsBlankQuery(a.search.query)

\* C20: search with an empty or whitespace-only query returns an empty
\* sequence in the step in which it is called: that step issues no fetch and
\* leaves this._cache and every snapshot as they were, whatever the age of the
\* snapshot, whether or not it holds nodes, and whatever the threshold; and
\* the call takes no further step.
C20_BlankSearchReturnsAtOnce ==
    [][/\ \A p \in 1..Len(calls') :
            (p > Len(calls) /\ BlankSearch(calls'[p].a)) =>
               /\ calls'[p].pc = "done"
               /\ calls'[p].result = Arr(<<>>)
               /\ ~calls'[p].fetched
               /\ fetches' = fetches
               /\ heap' = heap
               /\ cache' = cache
       /\ \A p \in Frames : BlankSearch(calls[p].a) => calls'[p] = calls[p]]_vars

\* a search for white space has returned; it was called with a threshold of 0
\* on a snapshot that held no nodes and was older than the threshold
C20_Witness ==
    \E p \in Frames :
       /\ calls[p].a.op = "search"
       /\ calls[p].a.search.query = Str(<<" ", "\t", "\n">>)
       /\ calls[p].pc = "done"
       /\ ttlMs = 0
       /\ calls[p].empty
       /\ ~calls[p].within
       /\ fetches = 0

-----------------------------------------------------------------------------
(* Properties of search *)

SearchFrames ==
    {p \in Frames : calls[p].a.op = "search" /\ calls[p].pc = "done"
                     /\ calls[p].c # 0}

\* the limit the documentation gives: the argument clamped into [1, 200], and
\* 25 for an argument that is missing or not a finite number
ClampedLimit(limit) ==
    IF limit.t = "number"
    THEN (IF limit.v < 1 THEN 1 ELSE IF limit.v > 200 THEN 200 ELSE limit.v)
    ELSE 25

\* what search(a) of call p saw of the snapshot it read: the haystacks of the
\* nodes, the place of the query in each, the scores
SearchView(p) ==
    LET nodes == heap[calls[p].c].nodes
        q == QueryOf(calls[p].a.search.query)
        hay == [i \in 1..Len(nodes) |-> nodeHaystack(g, nodes[i])]
        idx == [i \in 1..Len(nodes) |-> IndexOf(hay[i], q)]
    IN [nodes |-> nodes, q |-> q, hay |-> hay, idx |-> idx,
        score |-> [i \in 1..Len(nodes) |-> ScoreOf(idx[i], Len(hay[i]))]]

\* the types of the entries of a result
ResultTypes(r) == {JsString(ObjGet(r[j], k_type)) : j \in 1..Len(r)}

\* C21: search returns at most L results, L being the limit clamped into
\* [1, 200], or 25 for a limit that is missing or not a finite number; when
\* more than L nodes match, it returns L of them, and none of those it leaves
\* out has a lower score than one it returns.
C21_AtMostLimitLowestScores ==
    \A p \in SearchFrames :
       LET v == SearchView(p)
           r == calls[p].result.v
           L == ClampedLimit(calls[p].a.search.limit)
           matched == {i \in 1..Len(v.nodes) : v.idx[i] # -1}
           types == ResultTypes(r)
           returned == {i \in matched : JsString(ObjGet(v.nodes[i], k_type)) \in types}
       IN /\ Len(r) <= L
          /\ Cardinality(types) = Len(r)
          /\ Cardinality(returned) = Len(r)
          /\ Cardinality(matched) > L =>
                /\ Len(r) = L
                /\ \A i \in returned, k \in matched \ returned :
                      v.score[i] <= v.score[k]

\* a search with the limit 500 over a snapshot in which more than 200 nodes
\* match has returned 200 of them
C21_Witness ==
    \E p \in SearchFrames :
       /\ calls[p].a.search.limit = Num(500)
       /\ Len(heap[calls[p].c].nodes) > 200
       /\ Len(calls[p].result.v) = 200

\* the node of the snapshot that each entry of the result r was made of
NodeAt(v, r) ==
    [j \in 1..Len(r) |->
        CHOOSE i \in 1..Len(v.nodes) :
           Same(ObjGet(v.nodes[i], k_type), ObjGet(r[j], k_type))]

\* 10000 times the score the documentation gives: the place of the first
\* occurrence of the query in the haystack + min(haystack length, 10000)/10000
DocumentedScore(idx, hayLength) ==
    idx * 10000 + (IF hayLength < 10000 THEN hayLength ELSE 10000)

\* C22: the results of search are in the order of their scores, lowest
\* first; so a node in whose haystack the query begins earlier comes before
\* one in which it begins later, whatever the lengths of the two haystacks,
\* and of two nodes in which it begins at the same place the one with the
\* shorter haystack comes first if that haystack is shorter than 10000.
C22_ResultsInScoreOrder ==
    \A p \in SearchFrames :
       LET v == SearchView(p)
           r == calls[p].result.v
           at == NodeAt(v, r)
       IN /\ \A j \in 1..(Len(r) - 1) :
                DocumentedScore(v.idx[at[j]], Len(v.hay[at[j]])) <=
                   DocumentedScore(v.idx[at[j + 1]], Len(v.hay[at[j + 1]]))
          /\ \A j, k \in 1..Len(r) :
                /\ v.idx[at[j]] < v.idx[at[k]] => j < k
                /\ (/\ v.idx[at[j]] = v.idx[at[k]]
                    /\ Len(v.hay[at[j]]) < Len(v.hay[at[k]])
                    /\ Len(v.hay[at[j]]) < 10000) => j < k

\* a search for ab over the six records of ScoreDoc: abc and abz, then abcd,
\* then the long type, whose haystack is longer than 10000, then cab and ccab
C22_Witness ==
    \E p \in SearchFrames :
       LET v == SearchView(p)
           r == calls[p].result.v
       IN /\ v.q = t_ab
          /\ Len(r) = 6
          /\ [j \in 1..6 |-> ObjGet(r[j], k_type).v] =
                <<t_ab \o <<"c">>, t_ab \o <<"z">>, t_ab \o <<"c", "d">>, LongType,
                  <<"c">> \o t_ab, <<"c", "c">> \o t_ab>>
          /\ Len(v.hay[NodeAt(v, r)[4]]) > 10000
          /\ v.idx[NodeAt(v, r)[4]] < v.idx[NodeAt(v, r)[5]]
          /\ Len(v.hay[NodeAt(v, r)[4]]) > Len(v.hay[NodeAt(v, r)[5]])

\* a filter that is given: a string of at least one character
Given(x) == x.t = "string" /\ x.v # <<>>

\* the texts a search looks through in a record: its type, category, label,
\* module, package and set, the plain text of its help, the names of its
\* default fields
SearchedTexts(n) ==
    LET help == ObjGet(n, k_help)
        defaults == ObjGet(n, k_defaults)
    IN <<FieldText(n, k_type), FieldText(n, k_category), FieldText(n, k_paletteLabel),
         FieldText(n, k_module), FieldText(n, k_modulePackage),
         FieldText(n, k_moduleSet),
         IF help.t = "object" THEN FieldText(help, k_text) ELSE <<>>,
         IF defaults.t = "object" THEN Join(ObjKeys(defaults), <<" ">>) ELSE <<>>>>

\* the record n passes the filters of the search a and holds its query
Passes(n, a) ==
    /\ a.customOnly => Same(ObjGet(n, k_isCustom), Bool(TRUE))
    /\ Given(a.module) =>
          Includes(ToLowerCase(FieldText(n, k_module)), ToLowerCase(a.module.v))
    /\ Given(a.category) =>
          /\ FieldText(n, k_category) # <<>>
          /\ Includes(ToLowerCase(FieldText(n, k_category)),
                      ToLowerCase(a.category.v))
    /\ Includes(ToLowerCase(Join(SelectSeq(SearchedTexts(n), LAMBDA t : t # <<>>),
                                 <<"\n">>)),
                ToLowerCase(Trim(a.query.v)))

\* C23: a search whose matches are fewer than its limit returns exactly the
\* records of the snapshot that are custom if customOnly is set, whose module
\* holds the module filter and whose category holds the category filter if
\* these are given, whatever the case of the letters, and whose haystack of
\* type, category, label, module, package, set, help text and default field
\* names holds the trimmed query in lower case; a record without a category
\* passes no category filter.
C23_ResultIsTheMatchingNodes ==
    \A p \in SearchFrames :
       LET nodes == heap[calls[p].c].nodes
           a == calls[p].a.search
           r == calls[p].result.v
           passing == {i \in 1..Len(nodes) : Passes(nodes[i], a)}
       IN (Cardinality(passing) <= LimitOf(a.limit)) =>
             /\ Len(r) = Cardinality(passing)
             /\ ResultTypes(r) = {FieldText(nodes[i], k_type) : i \in passing}

\* a search for a among the custom records, with the module filter M and the
\* category filter X, over the four records of FilterDoc: it returned a and b
C23_Witness ==
    \E p \in SearchFrames :
       LET a == calls[p].a.search
           r == calls[p].result.v
       IN /\ a.customOnly /\ Given(a.module) /\ Given(a.category)
          /\ QueryOf(a.query) = t_a
          /\ Len(heap[calls[p].c].nodes) = 4
          /\ ResultTypes(r) = {t_a, t_b}


\* --------------------------------------------------------------------
\* Properties of the discovery of wrappers and of their calls (RegSpec)

\* the document that build e was answered with
RegOf(e) == log[e].resp.body

\* the texts of the type fields of the records of a snapshot
TypesOf(s) == {FieldText(s.nodes[n], k_type) : n \in 1..Len(s.nodes)}

\* the parameter list is a flat sequence of plain names
PlainParams(params) == params \in {"plain", "swapped", "proto"}

\* the function of the document qualifies as a wrapper: plain parameters,
\* a block body, and a first registration call with the parameter type as
\* its type argument and an object literal as its options
Qualifies(b) ==
    /\ PlainParams(b.params)
    /\ b.decl # "arrowexpr"
    /\ b.inner = "param"

\* the types the registration calls in the body of the function register
\* by themselves, with a string literal as their type argument
BodyTypes(b) == IF b.inner \in {"literal", "second"} THEN {t_k} ELSE {}

\* C24: a function with a parameter that is not a plain name, an arrow
\* function with an expression body, and a function whose first registration
\* call has a type argument that is no parameter or options that are no
\* object literal is not a wrapper: the call of it adds no record to the
\* snapshot.
C24_OnlyPlainWrappersRegister ==
    \A e \in Builds :
       (log[e].resp.kind = "ok" /\ ~Qualifies(RegOf(e))) =>
          TypesOf(SnapshotOf(e)) \subseteq BodyTypes(RegOf(e))

\* the placeholder of a name that is not bound
NameRef(name) == Obj(<< <<k_kind, Str(k_ref)>>, <<k_name, Str(name)>> >>)

\* the values the arguments of the call evaluate to
ArgValues(k) ==
    CASE k = "a,g" -> <<Str(t_a), Str(t_g)>>
      [] k = "g,a" -> <<Str(t_g), Str(t_a)>>
      [] k = "a" -> <<Str(t_a)>>
      [] k = "'',g" -> <<Str(<<>>), Str(t_g)>>
      [] k = "5,g" -> <<Num(5), Str(t_g)>>
      [] k = "x,g" -> <<NameRef(t_x), Str(t_g)>>
      [] k = "~a~,g" -> <<Str(t_a), Str(t_g)>>
      [] k = "a,x" -> <<Str(t_a), NameRef(t_x)>>
      [] k = "a,g,d" -> <<Str(t_a), Str(t_g), Str(t_d)>>
      [] OTHER -> <<>>

\* the names of the parameters in the order of their declaration; the
\* pattern {} declares no name
DeclaredNames(params) ==
    CASE params \in {"plain", "default", "rest"} -> <<k_type, p_label>>
      [] params \in {"swapped", "defaultfirst"} -> <<p_label, k_type>>
      [] params = "pattern" -> << <<>>, k_type>>
      [] OTHER -> <<k_type, n_proto_param>>

\* the value bound to a name at the call: the value of the argument at the
\* place of its declaration, null without such an argument, and the name
\* is left as a reference if it is no parameter
BoundValue(b, name) ==
    LET names == DeclaredNames(b.params)
        at == {i \in 1..Len(names) : names[i] = name}
        values == ArgValues(b.args)
    IN IF at = {} THEN NameRef(name)
       ELSE LET i == The(at)
            IN IF i <= Len(values) THEN values[i] ELSE Null

\* the name the options of the wrapper take their category from
LabelName(b) == IF b.params = "proto" THEN n_proto_param ELSE p_label

\* the function of the document is one the parser records as a wrapper
IsWrapper(b) == b.inner = "param" /\ b.decl # "arrowexpr"

\* C25: at the call of a wrapper each declared parameter is bound to the
\* value of the argument at its place, or to null without one; the call
\* yields a record if and only if the type parameter is bound to a string
\* of at least one character, and the record has that type and the options
\* of the wrapper under these bindings.
C25_CallBindsByPosition ==
    \A e \in Builds :
       LET b == RegOf(e)
           s == SnapshotOf(e)
           T == BoundValue(b, k_type)
       IN (log[e].resp.kind = "ok" /\ IsWrapper(b)) =>
             IF T.t = "string" /\ T.v # <<>>
             THEN /\ Len(s.nodes) = 1
                  /\ FieldText(s.nodes[1], k_type) = T.v
                  /\ Same(ObjGet(s.nodes[1], k_options),
                          Obj(<< <<k_category, BoundValue(b, LabelName(b))>>,
                                 <<k_paletteLabel, T>> >>))
             ELSE s.nodes = <<>>


\* --------------------------------------------------------------------
\* Properties of template literals (TemplateSpec)

\* the text an embedded expression reduces to under the bindings of the
\* call, in a tuple of one element, or no element if it does not reduce to
\* a string, a number or a boolean
ReducedText(k, arg) ==
    CASE k = "'b'" -> <<t_b>>
      [] k = "5" -> << <<"5">> >>
      [] k = "true" -> <<s_true>>
      [] k = "-5" -> << <<"-", "5">> >>
      [] k = "~c~" -> << <<"c">> >>
      [] k = "type" -> <<t_a>>
      [] k = "label" /\ arg = "'g'" -> <<t_g>>
      [] k = "label" /\ arg = "7" -> << <<"7">> >>
      [] k = "label" /\ arg = "false" -> <<s_false>>
      [] OTHER -> <<>>

\* every embedded expression of the template reduces
AllReduce(b) == \A i \in 1..Len(b.exprs) : ReducedText(b.exprs[i], b.arg) # <<>>

\* the literal parts and the reduced texts, in their order
RECURSIVE Concatenated(_, _)
Concatenated(b, i) ==
    IF i > Len(b.exprs) THEN QuasiTexts[i]
    ELSE QuasiTexts[i] \o ReducedText(b.exprs[i], b.arg)[1] \o Concatenated(b, i + 1)

\* the documents of TemplateSpec among the builds
TemplateBuilds == {e \in Builds : log[e].resp.kind = "ok"}

\* the category option of the one record of build e
CategoryOption(e) == ObjGet(ObjGet(SnapshotOf(e).nodes[1], k_options), k_category)

\* C26: a template literal evaluates to the concatenation of its literal
\* parts and the texts of its embedded expressions if every embedded
\* expression reduces, under the bindings of the call, to a string, a
\* number or a boolean; otherwise it evaluates to one placeholder of the
\* kind template with the whole source text of the template.
C26_TemplateAllOrNothing ==
    \A e \in TemplateBuilds :
       LET b == RegOf(e)
       IN /\ Len(SnapshotOf(e).nodes) = 1
          /\ IF AllReduce(b)
             THEN CategoryOption(e) = Str(Concatenated(b, 1))
             ELSE Same(CategoryOption(e),
                       Obj(<< <<k_kind, Str(k_template)>>,
                              <<k_source,
                                Str(<<"~">> \o TemplateText(b.exprs, 1) \o <<"~">>)>> >>))

\* the template ~p${label}-${null}q~ of a wrapper called with the label 7:
\* its first embedded expression reduces to 7, its second to no string,
\* number or boolean, and the option is the placeholder
C26_Witness ==
    \E e \in TemplateBuilds :
       /\ RegOf(e).exprs = <<"label", "null">> /\ RegOf(e).arg = "7"
       /\ ObjGet(CategoryOption(e), k_kind) = Str(k_template)


\* --------------------------------------------------------------------
\* Properties of the attribution to modules (AttrSpec)

\* the item is a fragment or an accepted registration for the type T
Touches(item, T) ==
    /\ T # <<>>
    /\ item.k \in {"help", "template", "reg", "wrap"}
    /\ item.type \in StringLiteralArgs \cup NameArgs
    /\ TypeOfArg(item.type) = T

\* the place of the key k among the keys of the record r
KeyIndex(r, k) == CHOOSE i \in 1..Len(r.v) : ObjKeys(r)[i] = k

\* the records of a snapshot that hold a type field
TypedRecords(s) == {n \in 1..Len(s.nodes) : ObjHas(s.nodes[n], k_type)}

\* C27: the module, modulePackage and moduleSet of a record are those of
\* the last module of the document with a help fragment, a template
\* fragment or an accepted registration of its type; and the help and
\* template fragments of a module are merged before its registrations, so
\* that a record made in one module holds help and template before the
\* fields of the registration.  (The records are those that hold a type.)
C27_LastModuleWins ==
    \A e \in Builds : \A n \in TypedRecords(SnapshotOf(e)) :
       LET b == RegOf(e)
           r == SnapshotOf(e).nodes[n]
           T == FieldText(r, k_type)
           touching == {i \in 1..Len(b.items) : Touches(b.items[i], T)}
           last == CHOOSE i \in touching : \A j \in touching : j <= i
           m == splitModuleName(IF b.split THEN ModuleNames[last] ELSE m_custom)
       IN /\ touching # {}
          /\ ObjGet(r, k_module) = m.module
          /\ ObjGet(r, k_modulePackage) = m.modulePackage
          /\ ObjGet(r, k_moduleSet) = m.moduleSet
          /\ \A f \in {k_help, k_template} :
                (~b.split /\ ObjHas(r, f) /\ ObjHas(r, k_options)) =>
                   KeyIndex(r, f) < KeyIndex(r, k_category)

\* a registration of a in m/q, a template for a in n/i and a help fragment
\* for a in mx/q: the one record holds all three and is of the module mx/q
C27_Witness ==
    \E e \in Builds :
       LET b == RegOf(e)
           s == SnapshotOf(e)
       IN /\ b.split
          /\ <<b.items[1].k, b.items[2].k, b.items[3].k>> = <<"reg", "template", "help">>
          /\ \A i \in 1..3 : b.items[i].type = "'a'"
          /\ Len(s.nodes) = 1
          /\ ObjGet(s.nodes[1], k_module) = Str(m_other)
          /\ ObjHas(s.nodes[1], k_options)
          /\ ObjHas(s.nodes[1], k_template)
          /\ ObjHas(s.nodes[1], k_help)


\* --------------------------------------------------------------------
\* Properties of the threshold (TtlSpec)

\* the text is one or more decimal digits
IsDigits(s) == s # <<>> /\ \A i \in 1..Len(s) : IsDigit(s[i])

\* the text is a decimal number: digits, with a sign and a fraction or
\* without
IsDecimal(s) ==
    LET u == IF s # <<>> /\ Head(s) = "-" THEN Tail(s) ELSE s
        dots == {i \in 1..Len(u) : u[i] = "."}
    IN \/ IsDigits(u)
       \/ \E i \in dots : IsDigits(SubSeq(u, 1, i - 1)) /\ IsDigits(SubSeq(u, i + 1, Len(u)))

\* C28: the threshold is a non-negative number; it is 60000 if
\* NODE_MCP_CATALOG_TTL_MS is not set, the configured value if that is a
\* non-negative integer, 0 included, and 60000 if the configured value is
\* negative or is not a number; and no step changes it.
C28_ThresholdIsConfiguredOrDefault ==
    /\ [](/\ ttlMs \in Nat
          /\ ttlEnv = Undefined => ttlMs = DefaultTtlMs
          /\ (ttlEnv # Undefined /\ IsDigits(ttlEnv.v)) =>
                ttlMs = DigitsValue(ttlEnv.v, 0)
          /\ (ttlEnv # Undefined /\ ttlEnv.v # <<>> /\ Head(ttlEnv.v) = "-") =>
                ttlMs = DefaultTtlMs
          /\ (ttlEnv # Undefined /\ ~IsDecimal(ttlEnv.v)) => ttlMs = DefaultTtlMs)
    /\ [][ttlMs' = ttlMs]_vars


\* --------------------------------------------------------------------
\* Properties of the timestamp (Spec)

\* C29: the timestamp of the current snapshot never decreases: a step that
\* publishes, whichever refresh of those in flight it belongs to, installs
\* the time of the publication, which is not before the timestamp of the
\* snapshot it replaces; and no other step changes the timestamp.
C29_TimestampNeverDecreases ==
    [][/\ heap'[cache'].ts >= heap[cache].ts
       /\ IF log' # log THEN heap'[cache'].ts = clock
          ELSE heap'[cache'].ts = heap[cache].ts]_vars

\* two calls fetched at the same time; the one that began last published
\* first, time passed, and the one that began first published after it
C29_Witness ==
    /\ Len(log) = 2
    /\ log[1].p > log[2].p
    /\ log[2].ts > log[1].ts
    /\ heap[cache].ts = log[2].ts


\* --------------------------------------------------------------------
\* Properties of empty answers (EmptySpec)

\* the answer holds no module block: a JSON body, or a text without a
\* delimiter
YieldsNothing(resp) == resp.json \/ resp.body = NoBody

\* the call p is a getCatalog, list, getNode or search with a query
ReadsCatalog(p) ==
    /\ calls[p].a.op \in {"getCatalog", "list", "catalog-get-node", "search"}
    /\ calls[p].a.op = "search" => QueryOf(calls[p].a.search.query) # <<>>

====
